---- MODULE Spec2Model ----
(***************************************************************************)
(* Verification model of IBM/python-versions-pz:                           *)
(*   .github/scripts/generate_partial_manifest.py  (partial manifests)     *)
(*   .github/scripts/get_python_version.py         (version filter engine) *)
(*   .github/scripts/apply_partial_manifests.py    (manifest files)        *)
(*   manifest_tools (merge, update_version) and the SDK tag resolver, as   *)
(*   their design describes them                                           *)
(* Python strings are TLA+ strings; Len, \o and SubSeq act on them         *)
(* character by character.  None is the empty tuple, a present optional    *)
(* value v is <<v>>.                                                        *)
(***************************************************************************)
EXTENDS Integers, Sequences, FiniteSets, TLC

VARIABLES
    gpm_op,     \* generate_partial_manifest: the function called last
    gpm_in,     \* its arguments
    gpm_out,    \* its return value
    manifest,   \* PythonManifestParser.manifest (set by the constructor)
    ver_op,     \* get_python_version: the method called last
    ver_in,     \* its arguments
    ver_out,    \* its return value
    manifest_dir,   \* the manifest files on disk: file name -> JSON content
    mt_op,      \* manifest tools / apply_partial_manifests: the call made last
    mt_in,      \* its arguments
    mt_out,     \* its return value
    writers,    \* concurrent invocations that apply one record each
    raw_files,  \* manifest files that hold no JSON document: file name -> text
    tag_op,     \* tag resolver: the function called last
    tag_in,     \* its arguments
    tag_out     \* its return value

gpmVars == <<gpm_op, gpm_in, gpm_out>>
verVars == <<manifest, ver_op, ver_in, ver_out>>
mtVars == <<manifest_dir, mt_op, mt_in, mt_out, writers, raw_files>>
tagVars == <<tag_op, tag_in, tag_out>>
vars == <<gpm_op, gpm_in, gpm_out, manifest, ver_op, ver_in, ver_out,
          manifest_dir, mt_op, mt_in, mt_out, writers, raw_files,
          tag_op, tag_in, tag_out>>

None == <<>>
Some(x) == <<x>>

----------------------------------------------------------------------------
(* Python str primitives                                                   *)

\* s[i:] for 0 <= i
DropFirst(s, n) == SubSeq(s, n + 1, Len(s))

\* s[:-n] for n > 0
DropLast(s, n) == SubSeq(s, 1, Len(s) - n)

\* s.startswith(p)
StartsWith(s, p) == Len(p) <= Len(s) /\ SubSeq(s, 1, Len(p)) = p

\* s.endswith(x)
EndsWith(s, x) == Len(x) <= Len(s) /\ SubSeq(s, Len(s) - Len(x) + 1, Len(s)) = x

\* x in s
Contains(s, x) ==
    \E i \in 1..(Len(s) - Len(x) + 1) : SubSeq(s, i, i + Len(x) - 1) = x

CharAt(s, i) == SubSeq(s, i, i)

\* the ASCII characters str.strip() removes: space, tab, line feed, vertical
\* tab, form feed, carriage return and the separators chr(28)..chr(31)
Whitespace == {" ", "\t", "\n", "\r", "\f", "", "", "", "", ""}

\* not s.strip(): s holds nothing but whitespace
IsBlank(s) == \A i \in 1..Len(s) : CharAt(s, i) \in Whitespace

\* s.split(sep) for a one-character sep: always at least one field
RECURSIVE SplitFrom(_, _, _, _)
SplitFrom(s, sep, i, cur) ==
    IF i > Len(s) THEN <<cur>>
    ELSE IF CharAt(s, i) = sep
         THEN <<cur>> \o SplitFrom(s, sep, i + 1, "")
         ELSE SplitFrom(s, sep, i + 1, cur \o CharAt(s, i))

Split(s, sep) == SplitFrom(s, sep, 1, "")

Digits == <<"0", "1", "2", "3", "4", "5", "6", "7", "8", "9">>

IsDigit(c) == \E d \in 1..10 : Digits[d] = c

DigitValue(c) == (CHOOSE d \in 1..10 : Digits[d] = c) - 1

\* int(s) for a non-empty string of decimal digits
RECURSIVE ToInt(_)
ToInt(s) ==
    IF Len(s) = 0 THEN 0
    ELSE 10 * ToInt(DropLast(s, 1)) + DigitValue(CharAt(s, Len(s)))

\* str(n) for n >= 0
RECURSIVE ToStr(_)
ToStr(n) == IF n < 10 THEN Digits[n + 1] ELSE ToStr(n \div 10) \o Digits[(n % 10) + 1]

\* dict.get(key, default)
Get(d, key, default) == IF key \in DOMAIN d THEN d[key] ELSE default

----------------------------------------------------------------------------
(* generate_partial_manifest.py                                            *)

PREFIXES == <<"python-", "trivy-python-">>
SUFFIXES == <<".tar.gz", ".sbom.json", ".json", ".log">>

\* the checks of validate_download_url, in the code's order
validate_download_url(url, owner, repo, tag, filename) ==
    LET expected_base == "https://github.com/" \o owner \o "/" \o repo \o "/releases/download/"
    IN  IF url = "" \/ IsBlank(url) THEN FALSE
        ELSE IF ~StartsWith(url, "https://github.com/") THEN FALSE
        ELSE IF ~StartsWith(url, expected_base) THEN FALSE
        ELSE TRUE

\* the first prefix of the tuple that cleaned starts with is cut off (break)
RECURSIVE StripPrefix(_, _, _)
StripPrefix(cleaned, prefixes, i) ==
    IF i > Len(prefixes) THEN cleaned
    ELSE IF StartsWith(cleaned, prefixes[i])
         THEN DropFirst(cleaned, Len(prefixes[i]))
         ELSE StripPrefix(cleaned, prefixes, i + 1)

\* the first suffix of the tuple that cleaned ends with is cut off (break)
RECURSIVE StripSuffix(_, _, _)
StripSuffix(cleaned, suffixes, i) ==
    IF i > Len(suffixes) THEN cleaned
    ELSE IF EndsWith(cleaned, suffixes[i])
         THEN DropLast(cleaned, Len(suffixes[i]))
         ELSE StripSuffix(cleaned, suffixes, i + 1)

strip_known_wrappers(filename) ==
    StripSuffix(StripPrefix(filename, PREFIXES, 1), SUFFIXES, 1)

\* mutant: a name with more than four fields is refused
parse_filename_ExactlyFour(filename) ==
    LET parts == Split(strip_known_wrappers(filename), "-")
    IN  IF Len(parts) # 4 THEN None
        ELSE Some([version |-> parts[1],
                   platform |-> parts[2],
                   platform_version |-> parts[3],
                   arch |-> parts[4]])

parse_filename(filename) ==
    LET stripped == strip_known_wrappers(filename)
        parts == Split(stripped, "-")
    IN  IF Len(parts) < 4 THEN None
        ELSE Some([version |-> parts[1],
                   platform |-> parts[2],
                   platform_version |-> parts[3],
                   arch |-> parts[4]])

\* mutant: security-scan artifacts are not recognised
should_skip_NoTrivy(name) == ~EndsWith(name, ".tar.gz")

should_skip(name) == ~EndsWith(name, ".tar.gz") \/ Contains(name, "trivy")

CanonicalUrl(owner, repo, tag, name) ==
    "https://github.com/" \o owner \o "/" \o repo \o "/releases/download/" \o tag \o "/" \o name

ParseError(name) == "Filename parsing failed for asset '" \o name \o "'"

UrlError(owner, repo, tag, name, download_url) ==
    "Invalid download_url for '" \o name \o "': expected '"
        \o CanonicalUrl(owner, repo, tag, name) \o "', got '" \o download_url \o "'"

\* mutant: the version comes from the filename
ManifestRecord_ParsedVersion(tag, name, parsed, url) ==
    [version |-> parsed.version,
     filename |-> name,
     arch |-> parsed.arch,
     platform |-> parsed.platform,
     platform_version |-> parsed.platform_version,
     download_url |-> url]

ManifestRecord(tag, name, parsed, url) ==
    [version |-> tag,
     filename |-> name,
     arch |-> parsed.arch,
     platform |-> parsed.platform,
     platform_version |-> parsed.platform_version,
     download_url |-> url]

\* mutant: the asset's own download_url is passed through
final_download_url_Supplied(download_url, owner, repo, tag, name) == download_url

\* the URL written into an entry (line 95): built from the arguments, the
\* asset's own download_url is not used
final_download_url(download_url, owner, repo, tag, name) ==
    CanonicalUrl(owner, repo, tag, name)

\* mutant: an asset whose filename does not parse is dropped without an error
process_asset_SilentParseFailure(tag, asset, owner, repo, acc) ==
    LET name == Get(asset, "name", "")
        parsed == parse_filename(name)
        download_url == Get(asset, "browser_download_url", "")
    IN  IF should_skip(name) \/ parsed = None THEN acc
        ELSE IF ~validate_download_url(download_url, owner, repo, tag, name)
        THEN [acc EXCEPT !.errors =
                  Append(@, UrlError(owner, repo, tag, name, download_url))]
        ELSE [acc EXCEPT !.entries =
                  Append(@, ManifestRecord(tag, name, parsed[1],
                      CanonicalUrl(owner, repo, tag, name)))]

\* one pass of the for loop over assets; acc is (entries, errors)
process_asset(tag, asset, owner, repo, acc) ==
    LET name == Get(asset, "name", "")
        parsed == parse_filename(name)
        download_url == Get(asset, "browser_download_url", "")
    IN  IF should_skip(name) THEN acc
        ELSE IF parsed = None
        THEN [acc EXCEPT !.errors = Append(@, ParseError(name))]
        ELSE IF ~validate_download_url(download_url, owner, repo, tag, name)
        THEN [acc EXCEPT !.errors =
                  Append(@, UrlError(owner, repo, tag, name, download_url))]
        ELSE [acc EXCEPT !.entries =
                  Append(@, ManifestRecord(tag, name, parsed[1],
                      final_download_url(download_url, owner, repo, tag, name)))]

RECURSIVE BuildLoop(_, _, _, _, _, _)
BuildLoop(tag, assets, owner, repo, i, acc) ==
    IF i > Len(assets) THEN acc
    ELSE BuildLoop(tag, assets, owner, repo, i + 1,
             process_asset(tag, assets[i], owner, repo, acc))

build_manifest_entries(tag, assets, owner, repo) ==
    BuildLoop(tag, assets, owner, repo, 1, [entries |-> <<>>, errors |-> <<>>])

\* "Validation error: ..." for every error, in order
ValidationLines(errors) ==
    [i \in 1..Len(errors) |-> "Validation error: " \o errors[i]]

\* mutant: any validation error aborts, also when entries remain
\* the truth value of an optional string argument: None and "" are falsy
Truthy(arg) == arg # None /\ arg[1] # ""

\* the lines printed before the assets are read: one line when
\* args.assets_file or else args.assets is truthy, none otherwise
ProgressLine(load) ==
    IF Truthy(load.assets_file)
    THEN <<"Reading assets from file: " \o load.assets_file[1]>>
    ELSE IF Truthy(load.assets)
    THEN <<"Parsing assets from command-line string">>
    ELSE <<>>

generate_partial_manifest_main_AnyErrorAborts(tag, owner, repo, load) ==
    IF load.status # "ok"
    THEN [exit_code |-> 1, stdout |-> <<>>, stderr |-> ProgressLine(load)]
    ELSE
      LET built == build_manifest_entries(tag, load.assets_read, owner, repo)
      IN  IF built.errors # <<>>
          THEN [exit_code |-> 1, stdout |-> <<>>,
                stderr |-> ProgressLine(load) \o ValidationLines(built.errors)]
          ELSE [exit_code |-> 0, stdout |-> <<built.entries>>,
                stderr |-> ProgressLine(load)]

\* main() after argument parsing.  load holds args.assets_file and
\* args.assets (None when the option was not given; of the text of --assets
\* only whether it is empty is kept) and what reading the assets gave:
\* status "ok" with the decoded list in assets_read, or the exception raised
\* (exc is the text of the JSONDecodeError).  When neither argument is
\* truthy nothing is read and assets_read is the initial [].  stdout holds
\* the documents json.dump wrote, stderr the lines printed to sys.stderr.
generate_partial_manifest_main(tag, owner, repo, load) ==
    IF load.status = "JSONDecodeError"
    THEN [exit_code |-> 1, stdout |-> <<>>,
          stderr |-> Append(ProgressLine(load), "Error decoding JSON: " \o load.exc)]
    ELSE IF load.status = "FileNotFoundError"
    THEN [exit_code |-> 1, stdout |-> <<>>,
          stderr |-> Append(ProgressLine(load),
                            "Assets file not found: " \o load.assets_file[1])]
    ELSE
      LET built == build_manifest_entries(tag, load.assets_read, owner, repo)
          manifest_entries == built.entries
          errors == built.errors
      IN  IF errors # <<>> /\ manifest_entries = <<>>
          THEN [exit_code |-> 1,
                stdout |-> <<>>,
                stderr |-> Append(ProgressLine(load) \o ValidationLines(errors),
                    "ERROR: No valid assets found after validation. Aborting.")]
          ELSE [exit_code |-> 0,
                stdout |-> <<manifest_entries>>,
                stderr |-> IF errors # <<>>
                           THEN Append(ProgressLine(load) \o ValidationLines(errors),
                                    "Warning: " \o ToStr(Len(errors))
                                    \o " asset(s) failed validation but "
                                    \o ToStr(Len(manifest_entries)) \o " remain.")
                           ELSE ProgressLine(load)]

----------------------------------------------------------------------------
(* get_python_version.py: PythonManifestParser                             *)

is_alpha(version) ==
    EndsWith(version, "alpha") \/ Contains(version, "-alpha.") \/ Contains(version, "-alpha")

is_beta(version) ==
    EndsWith(version, "beta") \/ Contains(version, "-beta.") \/ Contains(version, "-beta")

is_rc(version) ==
    EndsWith(version, "rc") \/ Contains(version, "-rc.") \/ Contains(version, "-rc")

\* mutant: a release candidate is not told apart from a stable release
is_stable_IgnoresRc(version) == ~(is_alpha(version) \/ is_beta(version))

is_stable(version) == ~(is_alpha(version) \/ is_beta(version) \/ is_rc(version))

LowerCase ==
    {"a", "b", "c", "d", "e", "f", "g", "h", "i", "j", "k", "l", "m",
     "n", "o", "p", "q", "r", "s", "t", "u", "v", "w", "x", "y", "z"}

\* the character at 1-based position i, "" past the end
At(s, i) == IF i >= 1 /\ i <= Len(s) THEN CharAt(s, i) ELSE ""

\* \d+ from position i, greedy: the position of its last digit, i - 1 if none
RECURSIVE DigitRunEnd(_, _)
DigitRunEnd(s, i) == IF IsDigit(At(s, i)) THEN DigitRunEnd(s, i + 1) ELSE i - 1

\* [a-z]+ from position i, greedy: the position of its last letter, i - 1 if none
RECURSIVE LowerRunEnd(_, _)
LowerRunEnd(s, i) == IF At(s, i) \in LowerCase THEN LowerRunEnd(s, i + 1) ELSE i - 1

\* re.match(r"(\d+)\.(\d+)\.(\d+)(?:-?([a-z]+)(?:\.|)(\d+))?", version):
\* anchored at the start only.  No run can be shortened to let a later part
\* match (a digit is neither "." nor "-" nor a letter, a letter is neither "."
\* nor a digit), so the greedy runs decide the match.  The groups are None
\* when the pattern does not match, else (major, minor, patch, pre, pre_num)
\* with pre and pre_num None when the optional part does not take part.
VersionMatch(version) ==
    LET e1 == DigitRunEnd(version, 1)
        e2 == DigitRunEnd(version, e1 + 2)
        e3 == DigitRunEnd(version, e2 + 2)
        p1 == IF At(version, e3 + 1) = "-" THEN e3 + 2 ELSE e3 + 1
        l  == LowerRunEnd(version, p1)
        q1 == IF At(version, l + 1) = "." THEN l + 2 ELSE l + 1
        d  == DigitRunEnd(version, q1)
    IN  IF e1 < 1 \/ At(version, e1 + 1) # "." THEN None
        ELSE IF e2 < e1 + 2 \/ At(version, e2 + 1) # "." THEN None
        ELSE IF e3 < e2 + 2 THEN None
        ELSE Some([major |-> SubSeq(version, 1, e1),
                   minor |-> SubSeq(version, e1 + 2, e2),
                   patch |-> SubSeq(version, e2 + 2, e3),
                   pre |-> IF l >= p1 /\ d >= q1
                           THEN Some(SubSeq(version, p1, l)) ELSE None,
                   pre_num |-> IF l >= p1 /\ d >= q1
                               THEN Some(SubSeq(version, q1, d)) ELSE None])

\* pre_order.get(pre, 4)
pre_order(pre) ==
    IF pre = "" THEN 0
    ELSE IF pre = "rc" THEN 1
    ELSE IF pre = "beta" THEN 2
    ELSE IF pre = "alpha" THEN 3
    ELSE 4

parse_version(version) ==
    LET match == VersionMatch(version)
    IN  IF match = None THEN <<0, 0, 0, 0, 0>>
        ELSE
          LET g == match[1]
              pre == IF g.pre = None THEN "" ELSE g.pre[1]
              pre_num == IF g.pre_num = None \/ g.pre_num = Some("")
                         THEN 0 ELSE ToInt(g.pre_num[1])
          IN  <<ToInt(g.major), ToInt(g.minor), ToInt(g.patch),
                -pre_order(pre), -pre_num>>

\* pa < pb for tuples of integers of one length (Python tuple order)
RECURSIVE TupleLessFrom(_, _, _)
TupleLessFrom(pa, pb, i) ==
    IF i > Len(pa) THEN FALSE
    ELSE IF pa[i] # pb[i] THEN pa[i] < pb[i]
    ELSE TupleLessFrom(pa, pb, i + 1)

TupleLess(pa, pb) == TupleLessFrom(pa, pb, 1)

BoolInt(b) == IF b THEN 1 ELSE 0

\* mutant: only "greater" is told apart
version_compare_GreaterOnly(a, b) ==
    BoolInt(TupleLess(parse_version(b), parse_version(a)))

version_compare(a, b) ==
    LET pa == parse_version(a)
        pb == parse_version(b)
    IN  BoolInt(TupleLess(pb, pa)) - BoolInt(TupleLess(pa, pb))

\* re.fullmatch(re.escape(pattern).replace(r'\*', '.*'), version): every
\* character of the pattern but "*" stands for itself, "*" for any run of
\* characters other than a newline
RECURSIVE GlobFrom(_, _, _, _)
GlobFrom(version, i, pattern, j) ==
    IF j > Len(pattern) THEN i > Len(version)
    ELSE IF CharAt(pattern, j) = "*"
    THEN \/ GlobFrom(version, i, pattern, j + 1)
         \/ /\ i <= Len(version)
            /\ CharAt(version, i) # "\n"
            /\ GlobFrom(version, i + 1, pattern, j)
    ELSE /\ i <= Len(version)
         /\ CharAt(version, i) = CharAt(pattern, j)
         /\ GlobFrom(version, i + 1, pattern, j + 1)

\* mutant: re.match in place of re.fullmatch, so a matching prefix is enough
version_matches_filter_PrefixMatch(version, pattern) ==
    GlobFrom(version, 1, pattern \o "*", 1)

version_matches_filter(version, pattern) == GlobFrom(version, 1, pattern, 1)

\* mutant: an omitted release_types selects every release type
NormalizeReleaseTypes_DefaultAll(release_types) ==
    IF release_types.kind = "none" THEN <<"stable", "beta", "rc", "alpha">>
    ELSE IF release_types.kind = "str" THEN <<release_types.value>>
    ELSE release_types.value

\* release_types as passed: kind "none" (omitted), "str" (one string) or
\* "list"; the list filter_versions works with
NormalizeReleaseTypes(release_types) ==
    IF release_types.kind = "none" THEN <<"stable">>
    ELSE IF release_types.kind = "str" THEN <<release_types.value>>
    ELSE release_types.value

\* x in list
InList(x, list) == \E i \in 1..Len(list) : list[i] = x

\* mutant: the stable decision is read from the entry's own stable flag
ReleaseTypeSelected_TrustsFlag(entry, types) ==
    LET version == entry.version
    IN  IF InList("alpha", types) /\ is_alpha(version) THEN TRUE
        ELSE IF InList("beta", types) /\ is_beta(version) THEN TRUE
        ELSE IF InList("rc", types) /\ is_rc(version) THEN TRUE
        ELSE IF InList("stable", types) /\ Get(entry, "stable", FALSE) THEN TRUE
        ELSE FALSE

\* the if / elif chain of the loop body for an entry with a version: is
\* its version appended?
ReleaseTypeSelected(entry, types) ==
    LET version == entry.version
        include_alpha == InList("alpha", types)
        include_beta == InList("beta", types)
        include_rc == InList("rc", types)
        include_stable == InList("stable", types)
    IN  IF include_alpha /\ is_alpha(version) THEN TRUE
        ELSE IF include_beta /\ is_beta(version) THEN TRUE
        ELSE IF include_rc /\ is_rc(version) THEN TRUE
        ELSE IF include_stable /\ is_stable(version) THEN TRUE
        ELSE FALSE

\* mutant: only a missing version is skipped, an empty one is not
HasVersion_MissingOnly(entry) == "version" \in DOMAIN entry

\* entry.get("version") is used when it is truthy
HasVersion(entry) == "version" \in DOMAIN entry /\ entry.version # ""

RECURSIVE FilterLoop(_, _, _, _)
FilterLoop(entries, types, i, versions) ==
    IF i > Len(entries) THEN versions
    ELSE IF ~HasVersion(entries[i]) THEN FilterLoop(entries, types, i + 1, versions)
    ELSE IF ReleaseTypeSelected(entries[i], types)
    THEN FilterLoop(entries, types, i + 1, Append(versions, entries[i].version))
    ELSE FilterLoop(entries, types, i + 1, versions)

\* version_filter is None or <<pattern>>; an empty pattern is falsy
filter_versions(entries, release_types, version_filter) ==
    LET versions == FilterLoop(entries, NormalizeReleaseTypes(release_types), 1, <<>>)
        Matches(v) == version_matches_filter(v, version_filter[1])
    IN  IF version_filter # None /\ version_filter # Some("")
        THEN SelectSeq(versions, Matches)
        ELSE versions

\* list.sort(key=cmp_to_key(version_compare), reverse=True) is stable: v goes
\* behind every element that does not compare below it
RECURSIVE InsertDesc(_, _, _)
InsertDesc(sorted, v, i) ==
    IF i > Len(sorted) THEN Append(sorted, v)
    ELSE IF version_compare(sorted[i], v) < 0
    THEN SubSeq(sorted, 1, i - 1) \o <<v>> \o SubSeq(sorted, i, Len(sorted))
    ELSE InsertDesc(sorted, v, i + 1)

RECURSIVE SortDescFrom(_, _, _)
SortDescFrom(versions, i, sorted) ==
    IF i > Len(versions) THEN sorted
    ELSE SortDescFrom(versions, i + 1, InsertDesc(sorted, versions[i], 1))

SortDesc(versions) == SortDescFrom(versions, 1, <<>>)

\* mutant: the sort is left out
list_versions_Unsorted(entries, release_types, version_filter) ==
    filter_versions(entries, release_types, version_filter)

list_versions(entries, release_types, version_filter) ==
    SortDesc(filter_versions(entries, release_types, version_filter))

\* mutant: the first filtered version is returned without sorting
get_latest_version_FirstListed(entries, release_types, version_filter) ==
    LET versions == filter_versions(entries, release_types, version_filter)
    IN  IF versions = <<>> THEN None ELSE Some(versions[1])

get_latest_version(entries, release_types, version_filter) ==
    LET versions == filter_versions(entries, release_types, version_filter)
    IN  IF versions = <<>> THEN None ELSE Some(SortDesc(versions)[1])

----------------------------------------------------------------------------
(* Inputs of generate_partial_manifest                                     *)

MaxAssets == 2

Owner == "IBM"
Repo == "python-versions-pz"
Tags == {"3.13.3", "3.12.0"}

GoodName == "python-3.13.3-linux-22.04-ppc64le.tar.gz"
ShortName == "python-3.13.3-linux.tar.gz"
TrivyName == "trivy-python-3.13.3-linux-22.04-ppc64le.tar.gz"
LogName == "python-3.13.3-linux-22.04-ppc64le.log"
LongName == "python-3.12.0-linux-24.04-s390x-extra.tar.gz"

\* asset names given to build_manifest_entries
AssetNames == {GoodName, ShortName, TrivyName, LogName, LongName}

\* names given to parse_filename and should_skip directly
NamePool ==
    AssetNames \cup
    {"",
     "python-3.13.3-linux-22.04-ppc64le.sbom.json",
     "trivy-python-3.13.3-linux-22.04-ppc64le.json",
     "3.13.3-linux-22.04-ppc64le",
     "python-python-3.13.3-linux-22.04-ppc64le.tar.gz.log",
     "python-trivy-python-3.13.3-linux-22.04.json.sbom.json",
     "python-3.13.3--ppc64le.tar.gz",
     "python.tar.gz"}

ReleaseBase == "https://github.com/IBM/python-versions-pz/releases/download/"

\* download URLs a release host may supply for the asset called name
UrlsFor(name) ==
    {ReleaseBase \o "3.13.3/" \o name,
     ReleaseBase \o "3.12.0/" \o name,
     ReleaseBase \o "untagged-abc123/" \o name,
     ReleaseBase \o "3.13.3/python-3.12.0-linux-22.04-ppc64le.tar.gz",
     "https://github.com/WRONG/python-versions-pz/releases/download/3.13.3/" \o name,
     "http://github.com/IBM/python-versions-pz/releases/download/3.13.3/" \o name,
     "https://example.com/" \o name,
     "",
     " \f "}

UrlPool == UNION {UrlsFor(n) : n \in {GoodName, LongName}}

Asset(name, url) == [name |-> name, browser_download_url |-> url]

AssetPool ==
    {Asset(GoodName, u) : u \in UrlsFor(GoodName)}
    \cup {Asset(LongName, ReleaseBase \o "3.12.0/" \o LongName),
          Asset(LongName, ReleaseBase \o "untagged-abc123/" \o LongName),
          Asset(ShortName, ReleaseBase \o "3.13.3/" \o ShortName),
          Asset(ShortName, "https://example.com/short.tar.gz"),
          Asset(TrivyName, ReleaseBase \o "3.13.3/" \o TrivyName),
          Asset(TrivyName, "https://example.com/trivy.tar.gz"),
          Asset(LogName, "https://example.com/python.log"),
          [name |-> GoodName],
          [browser_download_url |-> ReleaseBase \o "3.13.3/" \o GoodName]}

AssetLists == UNION {[1..n -> AssetPool] : n \in 0..MaxAssets}

\* a non-empty value of --assets-file
AssetsFile == "assets.json"

\* stands for a non-empty text given to --assets
AssetsText == "[...]"

\* the arguments that make main read the assets: a truthy --assets-file or
\* a truthy --assets
ReadingArgs ==
    {[assets_file |-> Some(AssetsFile), assets |-> None],
     [assets_file |-> None, assets |-> Some(AssetsText)]}

\* the texts of the JSONDecodeError for the documents "{invalid-json}" and
\* "[" and for an empty assets file
DecodeErrors ==
    {"Expecting property name enclosed in double quotes: line 1 column 2 (char 1)",
     "Expecting value: line 1 column 2 (char 1)",
     "Expecting value: line 1 column 1 (char 0)"}

\* a load of main: the decoded list, a decoding error, a missing assets
\* file, or an empty argument, with which nothing is read
Loads ==
    {[assets_file |-> g.assets_file, assets |-> g.assets,
      status |-> "ok", assets_read |-> a] : g \in ReadingArgs, a \in AssetLists}
    \cup {[assets_file |-> g.assets_file, assets |-> g.assets,
           status |-> "JSONDecodeError", exc |-> exc] :
              g \in ReadingArgs, exc \in DecodeErrors}
    \cup {[assets_file |-> Some(AssetsFile), assets |-> None,
           status |-> "FileNotFoundError"]}
    \cup {[assets_file |-> Some(""), assets |-> None,
           status |-> "ok", assets_read |-> <<>>],
          [assets_file |-> None, assets |-> Some(""),
           status |-> "ok", assets_read |-> <<>>]}

----------------------------------------------------------------------------
(* Calls of generate_partial_manifest.  The functions are pure: a result   *)
(* does not depend on earlier calls, so a behaviour is one call.           *)

GpmIdle == gpm_op = "none" /\ gpm_in = <<>> /\ gpm_out = <<>>

ValidateDownloadUrl ==
    /\ gpm_op = "none"
    /\ \E url \in UrlPool, tag \in Tags, filename \in {GoodName, LongName} :
          /\ gpm_op' = "validate_download_url"
          /\ gpm_in' = [url |-> url, owner |-> Owner, repo |-> Repo,
                        tag |-> tag, filename |-> filename]
          /\ gpm_out' = validate_download_url(url, Owner, Repo, tag, filename)
    /\ UNCHANGED <<verVars, mtVars, tagVars>>

ParseFilename ==
    /\ gpm_op = "none"
    /\ \E filename \in NamePool :
          /\ gpm_op' = "parse_filename"
          /\ gpm_in' = [filename |-> filename]
          /\ gpm_out' = parse_filename(filename)
    /\ UNCHANGED <<verVars, mtVars, tagVars>>

ShouldSkip ==
    /\ gpm_op = "none"
    /\ \E name \in NamePool :
          /\ gpm_op' = "should_skip"
          /\ gpm_in' = [name |-> name]
          /\ gpm_out' = should_skip(name)
    /\ UNCHANGED <<verVars, mtVars, tagVars>>

BuildManifestEntries ==
    /\ gpm_op = "none"
    /\ \E tag \in Tags, assets \in AssetLists :
          /\ gpm_op' = "build_manifest_entries"
          /\ gpm_in' = [tag |-> tag, assets |-> assets, owner |-> Owner, repo |-> Repo]
          /\ gpm_out' = build_manifest_entries(tag, assets, Owner, Repo)
    /\ UNCHANGED <<verVars, mtVars, tagVars>>

Main ==
    /\ gpm_op = "none"
    /\ \E tag \in Tags, load \in Loads :
          /\ gpm_op' = "main"
          /\ gpm_in' = [tag |-> tag, owner |-> Owner, repo |-> Repo, load |-> load]
          /\ gpm_out' = generate_partial_manifest_main(tag, Owner, Repo, load)
    /\ UNCHANGED <<verVars, mtVars, tagVars>>

----------------------------------------------------------------------------
(* Inputs of get_python_version                                            *)

MaxManifest == 2

Bases == {"3.11.0", "3.9.12"}
Stages == {"alpha", "beta", "rc"}
SubOrdinals == {1, 2, 10}

\* MAJOR.MINOR.PATCH followed by one stage suffix, hyphenated or not, with or
\* without a numeric sub-ordinal
StagedVersions ==
    {b \o sep \o st \o sub :
        b \in Bases, sep \in {"-", ""}, st \in Stages,
        sub \in {"", "1"} \cup {"." \o ToStr(n) : n \in SubOrdinals}}

StableVersions == Bases \cup {"3.13.0", "3.12.5", "3.8.10"}

OddVersions ==
    {"invalid", "", "3.9", "v3.11.0", "3.11.0-dev.1", "3.11.0-alpha-beta",
     "3.11.0-beta.1-rc", "3.11.0-rc.1.2.3", "3.11.0-RC.1", "3.11.0.rc"}

\* versions of major.minor.patch 0.0.0
ZeroVersions == {"0.0.0", "0.0.0-rc.1"}

VersionPool == StagedVersions \cup StableVersions \cup OddVersions \cup ZeroVersions

Entry(version, stable) == [version |-> version, stable |-> stable]

\* manifest entries; the stable flag need not agree with the version string
EntryPool ==
    {Entry("3.13.0", TRUE),
     Entry("3.12.5", FALSE),
     Entry("3.11.0-rc.1", FALSE),
     Entry("3.11.0-rc.10", TRUE),
     Entry("3.10.0-beta.2", FALSE),
     Entry("3.9.0-alpha.1", FALSE),
     Entry("3.11.0-alpha-beta", FALSE),
     Entry("", TRUE),
     [stable |-> TRUE]}

\* the constructor raises ValueError for an empty manifest
Manifests == UNION {[1..n -> EntryPool] : n \in 1..MaxManifest}

\* conftest.py sample_manifest
SampleManifest ==
    <<Entry("3.13.0", TRUE), Entry("3.12.5", TRUE), Entry("3.11.0-rc.1", FALSE),
      Entry("3.10.0-beta.2", FALSE), Entry("3.9.0-alpha.1", FALSE),
      Entry("3.8.10", TRUE)>>

TypeList(value) == [kind |-> "list", value |-> value]

ReleaseTypeArgs ==
    {[kind |-> "none"],
     [kind |-> "str", value |-> "stable"],
     TypeList(<<"stable">>),
     TypeList(<<"rc">>),
     TypeList(<<"beta">>),
     TypeList(<<"alpha">>),
     TypeList(<<"stable", "rc">>),
     TypeList(<<"beta", "rc">>),
     TypeList(<<"stable", "beta", "rc", "alpha">>),
     TypeList(<<"preview">>)}

FilterArgs == {None, Some(""), Some("3.1*")}

\* versions and glob patterns given to version_matches_filter directly
MatchVersions ==
    {"3.13.5", "3.13.0", "3.12.5", "3.13.6", "2.13.0", "3x13.5", "3.13\n5", ""}

MatchPatterns ==
    {"3.13.5", "3.13.0", "3.13.*", "3.12.*", "3.*.5", "3.*.6", "*.13.0",
     "*.*.*", "*", "3.1*", "**5", ""}

----------------------------------------------------------------------------
(* Calls of PythonManifestParser.  No method changes the object, so a      *)
(* behaviour is one call on a constructed parser.                          *)

VerIdle == ver_op = "none" /\ ver_in = <<>> /\ ver_out = <<>>

ParseVersion ==
    /\ ver_op = "none"
    /\ \E version \in VersionPool :
          /\ ver_op' = "parse_version"
          /\ ver_in' = [version |-> version]
          /\ ver_out' = parse_version(version)
    /\ UNCHANGED <<manifest, gpmVars, mtVars, tagVars>>

VersionCompare ==
    /\ ver_op = "none"
    /\ \E a \in VersionPool, b \in VersionPool :
          /\ ver_op' = "version_compare"
          /\ ver_in' = [a |-> a, b |-> b]
          /\ ver_out' = version_compare(a, b)
    /\ UNCHANGED <<manifest, gpmVars, mtVars, tagVars>>

\* the four classifier predicates on one version string
Classify ==
    /\ ver_op = "none"
    /\ \E version \in VersionPool :
          /\ ver_op' = "classify"
          /\ ver_in' = [version |-> version]
          /\ ver_out' = [is_alpha |-> is_alpha(version),
                         is_beta |-> is_beta(version),
                         is_rc |-> is_rc(version),
                         is_stable |-> is_stable(version)]
    /\ UNCHANGED <<manifest, gpmVars, mtVars, tagVars>>

FilterVersions ==
    /\ ver_op = "none"
    /\ \E release_types \in ReleaseTypeArgs, version_filter \in FilterArgs :
          /\ ver_op' = "filter_versions"
          /\ ver_in' = [release_types |-> release_types,
                        version_filter |-> version_filter]
          /\ ver_out' = filter_versions(manifest, release_types, version_filter)
    /\ UNCHANGED <<manifest, gpmVars, mtVars, tagVars>>

ListVersions ==
    /\ ver_op = "none"
    /\ \E release_types \in ReleaseTypeArgs, version_filter \in FilterArgs :
          /\ ver_op' = "list_versions"
          /\ ver_in' = [release_types |-> release_types,
                        version_filter |-> version_filter]
          /\ ver_out' = list_versions(manifest, release_types, version_filter)
    /\ UNCHANGED <<manifest, gpmVars, mtVars, tagVars>>

GetLatestVersion ==
    /\ ver_op = "none"
    /\ \E release_types \in ReleaseTypeArgs, version_filter \in FilterArgs :
          /\ ver_op' = "get_latest_version"
          /\ ver_in' = [release_types |-> release_types,
                        version_filter |-> version_filter]
          /\ ver_out' = get_latest_version(manifest, release_types, version_filter)
    /\ UNCHANGED <<manifest, gpmVars, mtVars, tagVars>>

VersionMatchesFilter ==
    /\ ver_op = "none"
    /\ \E version \in MatchVersions, pattern \in MatchPatterns :
          /\ ver_op' = "version_matches_filter"
          /\ ver_in' = [version |-> version, pattern |-> pattern]
          /\ ver_out' = version_matches_filter(version, pattern)
    /\ UNCHANGED <<manifest, gpmVars, mtVars, tagVars>>

----------------------------------------------------------------------------
(* Manifest tools and apply_partial_manifests                              *)

FileEntry(filename, arch, platform, platform_version, download_url) ==
    [filename |-> filename, arch |-> arch, platform |-> platform,
     platform_version |-> platform_version, download_url |-> download_url]

ManifestEntry(version, stable, release_url, files) ==
    [version |-> version, stable |-> stable, release_url |-> release_url,
     files |-> files]

\* the position of the entry with that version, 0 when there is none
RECURSIVE IndexOfVersion(_, _, _)
IndexOfVersion(entries, version, i) ==
    IF i > Len(entries) THEN 0
    ELSE IF entries[i].version = version THEN i
    ELSE IndexOfVersion(entries, version, i + 1)

\* the file-identity key is the filename
HasFilename(files, filename) == \E i \in 1..Len(files) : files[i].filename = filename

\* mutant: every incoming file is appended, whatever its filename
RECURSIVE MergeFiles_NoDedup(_, _, _)
MergeFiles_NoDedup(files, incoming, i) ==
    IF i > Len(incoming) THEN files
    ELSE MergeFiles_NoDedup(Append(files, incoming[i]), incoming, i + 1)

\* each incoming file is appended unless a file of that filename is there
RECURSIVE MergeFiles(_, _, _)
MergeFiles(files, incoming, i) ==
    IF i > Len(incoming) THEN files
    ELSE IF HasFilename(files, incoming[i].filename)
    THEN MergeFiles(files, incoming, i + 1)
    ELSE MergeFiles(Append(files, incoming[i]), incoming, i + 1)

\* mutant: an incoming entry of a known version replaces the existing one
MergeEntry_IncomingWins(merged, entry) ==
    LET k == IndexOfVersion(merged, entry.version, 1)
    IN  IF k = 0 THEN Append(merged, entry)
        ELSE [merged EXCEPT ![k] = entry]

\* one incoming entry: appended when its version is unseen, else its files
\* are merged into the entry of that version
MergeEntry(merged, entry) ==
    LET k == IndexOfVersion(merged, entry.version, 1)
    IN  IF k = 0 THEN Append(merged, entry)
        ELSE [merged EXCEPT ![k].files = MergeFiles(@, entry.files, 1)]

RECURSIVE MergeLoop(_, _, _)
MergeLoop(merged, incoming, i) ==
    IF i > Len(incoming) THEN merged
    ELSE MergeLoop(MergeEntry(merged, incoming[i]), incoming, i + 1)

\* mutant: the versions new in incoming are put in front
manifest_merge_NewFirst(existing, incoming) ==
    LET merged == MergeLoop(existing, incoming, 1)
    IN  SubSeq(merged, Len(existing) + 1, Len(merged)) \o SubSeq(merged, 1, Len(existing))

\* the merged manifest written to the output file
manifest_merge(existing, incoming) == MergeLoop(existing, incoming, 1)

\* inputs of manifest_merge
X64File ==
    FileEntry("python-3.13.0-linux-x64.tar.gz", "x64", "linux", None,
              "https://example.com/python-3.13.0-x64.tar.gz")
Arm64File ==
    FileEntry("python-3.13.0-linux-arm64.tar.gz", "arm64", "linux", None,
              "https://example.com/python-3.13.0-arm64.tar.gz")
\* the filename of X64File under another URL
X64MirrorFile ==
    FileEntry("python-3.13.0-linux-x64.tar.gz", "x64", "linux", Some("22.04"),
              "https://mirror.example.com/python-3.13.0-x64.tar.gz")

FilePool == {X64File, Arm64File, X64MirrorFile}

UniqueFilenames(files) ==
    \A i, j \in 1..Len(files) : files[i].filename = files[j].filename => i = j

UniqueVersions(entries) ==
    \A i, j \in 1..Len(entries) : entries[i].version = entries[j].version => i = j

\* a manifest keeps its versions unique and the filenames of an entry unique
FileLists ==
    {files \in UNION {[1..n -> FilePool] : n \in 0..Cardinality(FilePool)} :
        UniqueFilenames(files)}

TagUrl(version) == "https://github.com/releases/tag/" \o version

EntriesOf(versions) ==
    {ManifestEntry(version, TRUE, TagUrl(version), files) :
        version \in versions, files \in FileLists}

ManifestsOf(versions) ==
    {entries \in UNION {[1..n -> EntriesOf(versions)] : n \in 0..Cardinality(versions)} :
        UniqueVersions(entries)}

ExistingManifests == ManifestsOf({"3.13.0", "3.12.0"})
IncomingManifests == ManifestsOf({"3.13.0", "3.11.0"})

\* (existing, incoming) pairs, a manifest merged with itself included
MergeArgs ==
    (ExistingManifests \X IncomingManifests)
        \cup {<<m, m>> : m \in ExistingManifests \cup IncomingManifests}

\* <<>> as manifest_dir is the empty directory (the function with no file)
\* the concurrent invocations of apply_entries
Writers == {"first", "second"}

\* an invocation that has not started: no record, nothing read
IdleWriter == [pc |-> "idle", entry |-> None, data |-> None, overlapped |-> FALSE]

MtIdle ==
    /\ manifest_dir = <<>> /\ mt_op = "none" /\ mt_in = <<>> /\ mt_out = <<>>
    /\ writers = [w \in Writers |-> IdleWriter]
    /\ raw_files = <<>>

ManifestMerge ==
    /\ mt_op = "none"
    /\ \E args \in MergeArgs :
          /\ mt_op' = "manifest_merge"
          /\ mt_in' = [existing |-> args[1], incoming |-> args[2]]
          /\ mt_out' = manifest_merge(args[1], args[2])
    /\ UNCHANGED <<manifest_dir, writers, raw_files, gpmVars, verVars, tagVars>>

\* release_url of an entry update_version creates
ReleaseUrl(version, stable) == TagUrl(version)

\* update_version on the content of a manifest file: the file is added to
\* the entry of that version unless its filename is there, or a new entry
\* with that one file is appended
update_version(entries, version, filename, arch, platform, download_url, platform_version, stable) ==
    LET file == FileEntry(filename, arch, platform, platform_version, download_url)
        k == IndexOfVersion(entries, version, 1)
    IN  IF k = 0
        THEN Append(entries, ManifestEntry(version, stable,
                                           ReleaseUrl(version, stable), <<file>>))
        ELSE IF HasFilename(entries[k].files, filename) THEN entries
        ELSE [entries EXCEPT ![k].files = Append(@, file)]

\* the directory with content written to the file called name
WriteFile(dir, name, content) ==
    [n \in DOMAIN dir \cup {name} |-> IF n = name THEN content ELSE dir[n]]

\* a manifest file that does not exist is read as []
ReadManifest(dir, name) == IF name \in DOMAIN dir THEN dir[name] ELSE <<>>

REQUIRED_FIELDS == {"version", "filename", "arch", "platform", "download_url"}

valid_entry(entry) == REQUIRED_FIELDS \subseteq DOMAIN entry

\* mutant: "[]\n" is written whether or not the file exists
ensure_manifest_file_AlwaysWrites(dir, manifest_file) ==
    WriteFile(dir, manifest_file, <<>>)

\* "[]\n" is written when the file does not exist
ensure_manifest_file(dir, manifest_file) ==
    IF manifest_file \in DOMAIN dir THEN dir ELSE WriteFile(dir, manifest_file, <<>>)

\* mutant: the manifest file is named after the arch alone
ManifestFileOf_ArchOnly(entry) == entry.arch \o ".json"

ManifestFileOf(entry) == entry.version \o "-" \o entry.arch \o ".json"

\* mutant: the record is appended to the manifest file as a new entry
\* without going through update_version
ApplyEntry_AppendsEntry(dir, entry) ==
    LET manifest_file == ManifestFileOf(entry)
        ensured == ensure_manifest_file(dir, manifest_file)
        platform_version ==
            IF "platform_version" \in DOMAIN entry
            THEN Some(entry.platform_version) ELSE None
        file == FileEntry(entry.filename, entry.arch, entry.platform,
                          platform_version, entry.download_url)
    IN  WriteFile(ensured, manifest_file,
                  Append(ensured[manifest_file],
                         ManifestEntry(entry.version, TRUE,
                                       ReleaseUrl(entry.version, TRUE), <<file>>)))

\* the loop body of apply_entries for a valid entry
ApplyEntry(dir, entry) ==
    LET manifest_file == ManifestFileOf(entry)
        ensured == ensure_manifest_file(dir, manifest_file)
        platform_version ==
            IF "platform_version" \in DOMAIN entry
            THEN Some(entry.platform_version) ELSE None
    IN  WriteFile(ensured, manifest_file,
                  update_version(ensured[manifest_file], entry.version,
                                 entry.filename, entry.arch, entry.platform,
                                 entry.download_url, platform_version, TRUE))

\* entries is a sequence of <<file_path, entry>>
RECURSIVE ApplyLoop(_, _, _, _)
ApplyLoop(entries, i, dir, applied) ==
    IF i > Len(entries) THEN [dir |-> dir, applied |-> applied]
    ELSE IF ~valid_entry(entries[i][2]) THEN ApplyLoop(entries, i + 1, dir, applied)
    ELSE ApplyLoop(entries, i + 1, ApplyEntry(dir, entries[i][2]), applied + 1)

\* the directory apply_entries leaves and the number it returns
apply_entries(entries, dir) == ApplyLoop(entries, 1, dir, 0)

\* the content of a partial file: text that is not JSON, a JSON document
\* that is not a list, or a JSON list of records
InvalidJson == [kind |-> "invalid"]
JsonObject == [kind |-> "object", value |-> [foo |-> "bar"]]
JsonList(records) == [kind |-> "list", value |-> records]

JSONDecodeError == [raised |-> TRUE]
Loaded(data) == [raised |-> FALSE, data |-> data]

load_entries(content) ==
    IF content.kind = "invalid" THEN JSONDecodeError
    ELSE IF content.kind = "list" THEN Loaded(content.value)
    ELSE Loaded(<<>>)

\* inputs of update_version and apply_entries
MaxPartials == 2

PartialRecord(version, arch, download_url) ==
    [version |-> version,
     filename |-> "python-" \o version \o "-linux-" \o arch \o ".tar.gz",
     arch |-> arch, platform |-> "linux", platform_version |-> "22.04",
     download_url |-> download_url]

X64Record == PartialRecord("3.13.0", "x64", "https://example.com/python-3.13.0-x64.tar.gz")
\* the version and filename of X64Record under another URL
X64MirrorRecord ==
    PartialRecord("3.13.0", "x64", "https://mirror.example.com/python-3.13.0-x64.tar.gz")
Arm64Record ==
    PartialRecord("3.13.0", "arm64", "https://example.com/python-3.13.0-arm64.tar.gz")
\* no platform_version
OlderRecord ==
    [version |-> "3.12.0", filename |-> "python-3.12.0-linux-arm64.tar.gz",
     arch |-> "arm64", platform |-> "linux",
     download_url |-> "https://example.com/python-3.12.0-arm64.tar.gz"]
\* a record without the required keys
BadRecord == [foo |-> "bar"]

UpdateRecords == {X64Record, X64MirrorRecord, Arm64Record, OlderRecord}

PartialPool == {X64Record, X64MirrorRecord, OlderRecord, BadRecord}

PartialLists ==
    UNION {[1..n -> {<<"manifest-part.json", entry>> : entry \in PartialPool}] :
               n \in 0..MaxPartials}

\* the manifest file update_version is called on directly
ManifestFile == "manifest.json"

UpdateVersion ==
    /\ mt_op # "main"
    /\ \E entry \in UpdateRecords :
        LET platform_version ==
                IF "platform_version" \in DOMAIN entry
                THEN Some(entry.platform_version) ELSE None
        IN  /\ mt_op' = "update_version"
            /\ mt_in' = [existing_file |-> ManifestFile, entry |-> entry]
            /\ mt_out' = <<>>
            /\ manifest_dir' =
                   WriteFile(manifest_dir, ManifestFile,
                             update_version(ReadManifest(manifest_dir, ManifestFile),
                                            entry.version, entry.filename, entry.arch,
                                            entry.platform, entry.download_url,
                                            platform_version, TRUE))
    /\ UNCHANGED <<gpmVars, verVars, tagVars, writers, raw_files>>

\* ensure_manifest_file on the file of update_version or on the file of a record
EnsureManifestFile ==
    /\ mt_op # "main"
    /\ \E manifest_file \in {ManifestFile, ManifestFileOf(X64Record)} :
          /\ mt_op' = "ensure_manifest_file"
          /\ mt_in' = [manifest_file |-> manifest_file]
          /\ mt_out' = <<>>
          /\ manifest_dir' = ensure_manifest_file(manifest_dir, manifest_file)
    /\ UNCHANGED <<gpmVars, verVars, tagVars, writers, raw_files>>

\* inputs of main: a partials directory is a function from the paths under
\* it to the content of the files; the paths it may hold, in sorted order
PartialPaths ==
    <<"manifest-part-3.13.0-arm64/manifest-part-3.13.0-arm64.json",
      "manifest-part-3.13.0-x64/manifest-part-3.13.0-x64.json",
      "notes.txt">>

FileContents ==
    {InvalidJson, JsonObject, JsonList(<<X64Record>>),
     JsonList(<<BadRecord, Arm64Record>>)}

PartialsDirs ==
    UNION {[paths -> FileContents] :
               paths \in SUBSET {PartialPaths[i] : i \in 1..Len(PartialPaths)}}

\* sorted(partials_dir.rglob("*.json"))
discover_partial_files(partials_dir) ==
    LET Found(path) == path \in DOMAIN partials_dir /\ EndsWith(path, ".json")
    IN  SelectSeq(PartialPaths, Found)

\* mutant: a file with invalid JSON ends the collection
RECURSIVE CollectEntries_StopsAtInvalid(_, _, _, _)
CollectEntries_StopsAtInvalid(partials_dir, files, i, entries) ==
    IF i > Len(files) THEN entries
    ELSE LET file_entries == load_entries(partials_dir[files[i]])
         IN  IF file_entries.raised THEN entries
             ELSE CollectEntries_StopsAtInvalid(partials_dir, files, i + 1,
                      entries \o [k \in 1..Len(file_entries.data) |->
                                     <<files[i], file_entries.data[k]>>])

\* the loop over the files: the (file_path, entry) pairs of the files that load
RECURSIVE CollectEntries(_, _, _, _)
CollectEntries(partials_dir, files, i, entries) ==
    IF i > Len(files) THEN entries
    ELSE LET file_entries == load_entries(partials_dir[files[i]])
         IN  IF file_entries.raised
             THEN CollectEntries(partials_dir, files, i + 1, entries)
             ELSE CollectEntries(partials_dir, files, i + 1,
                      entries \o [k \in 1..Len(file_entries.data) |->
                                     <<files[i], file_entries.data[k]>>])

\* partials is None when the partials directory does not exist; the result
\* holds the exit code, the manifest directory main leaves and the count
\* apply_entries returned, if it was called
apply_partial_manifests_main(partials, dir) ==
    IF partials = None THEN [code |-> 0, dir |-> dir, applied |-> None]
    ELSE LET files == discover_partial_files(partials[1])
         IN  IF files = <<>> THEN [code |-> 0, dir |-> dir, applied |-> None]
             ELSE LET result ==
                          apply_entries(CollectEntries(partials[1], files, 1, <<>>), dir)
                  IN  [code |-> 0, dir |-> result.dir,
                       applied |-> Some(result.applied)]

\* one run of the script, on the manifest directory earlier runs left
ApplyPartialManifestsMain ==
    /\ mt_op \in {"none", "main"}
    /\ \E partials \in {None} \cup {Some(d) : d \in PartialsDirs} :
          LET result == apply_partial_manifests_main(partials, manifest_dir)
          IN  /\ mt_op' = "main"
              /\ mt_in' = [partials |-> partials]
              /\ mt_out' = [code |-> result.code, applied |-> result.applied]
              /\ manifest_dir' = result.dir
    /\ UNCHANGED <<gpmVars, verVars, tagVars, writers, raw_files>>

ApplyEntries ==
    /\ mt_op # "main"
    /\ \E entries \in PartialLists :
        LET result == apply_entries(entries, manifest_dir)
        IN  /\ mt_op' = "apply_entries"
            /\ mt_in' = [entries |-> entries]
            /\ mt_out' = result.applied
            /\ manifest_dir' = result.dir
    /\ UNCHANGED <<gpmVars, verVars, tagVars, writers, raw_files>>

\* concurrent invocations of apply_entries, each on one record: the steps
\* of one invocation are the existence test and the write of
\* ensure_manifest_file and the read and the write of update_version

\* a second file of the version and arch of X64Record
X64DebugRecord ==
    [X64Record EXCEPT !.filename = "python-3.13.0-linux-x64-debug.tar.gz"]
\* a pre-release version
RcRecord == PartialRecord("3.13.0-rc", "x64", "https://example.com/python-3.13.0-rc-x64.tar.gz")
\* an arch that holds a hyphen
HyphenArchRecord ==
    PartialRecord("3.13.0", "rc-x64", "https://example.com/python-3.13.0-rc-x64.tar.gz")

WriterRecords == {X64Record, X64DebugRecord, Arm64Record, RcRecord, HyphenArchRecord}

Active(w) == writers[w].pc \notin {"idle", "done", "failed"}

\* the directory without the file called name
RemoveFile(dir, name) == [n \in DOMAIN dir \ {name} |-> dir[n]]

\* the texts of a manifest file that holds no JSON document: nothing, after
\* open(..., "w") and before the write, or "[]\n" written over the start of
\* the document another invocation wrote meanwhile
EmptyText == ""
OverwrittenText == "[]\n..."

\* apply_entries is called on one record; the invocation overlaps the other
\* one when that one is under way
WriterStart(w) ==
    /\ writers[w].pc = "idle"
    /\ \E entry \in WriterRecords :
          /\ valid_entry(entry)
          /\ writers' = [writers EXCEPT ![w] =
                 [pc |-> "exists", entry |-> Some(entry), data |-> None,
                  overlapped |-> \E other \in Writers \ {w} : Active(other)]]
    /\ UNCHANGED <<manifest_dir, raw_files, mt_op, mt_in, mt_out, gpmVars, verVars, tagVars>>

\* manifest_file.exists()
WriterExists(w) ==
    /\ writers[w].pc = "exists"
    /\ writers' = [writers EXCEPT ![w].pc =
           IF ManifestFileOf(writers[w].entry[1])
                  \in DOMAIN manifest_dir \cup DOMAIN raw_files
           THEN "read" ELSE "open"]
    /\ UNCHANGED <<manifest_dir, raw_files, mt_op, mt_in, mt_out, gpmVars, verVars, tagVars>>

\* manifest_file.write_text("[]\n"), first half: open(..., "w") creates the
\* file or empties it
WriterOpen(w) ==
    /\ writers[w].pc = "open"
    /\ manifest_dir' = RemoveFile(manifest_dir, ManifestFileOf(writers[w].entry[1]))
    /\ raw_files' = WriteFile(raw_files, ManifestFileOf(writers[w].entry[1]), EmptyText)
    /\ writers' = [writers EXCEPT ![w].pc = "create"]
    /\ UNCHANGED <<mt_op, mt_in, mt_out, gpmVars, verVars, tagVars>>

\* manifest_file.write_text("[]\n"), second half: "[]\n" is written at the
\* start of the file; a document another invocation wrote since the open is
\* overwritten at its start and is no JSON any more
WriterCreate(w) ==
    LET manifest_file == ManifestFileOf(writers[w].entry[1])
        Intact == \/ /\ manifest_file \in DOMAIN raw_files
                     /\ raw_files[manifest_file] = EmptyText
                  \/ /\ manifest_file \in DOMAIN manifest_dir
                     /\ manifest_dir[manifest_file] = <<>>
    IN  /\ writers[w].pc = "create"
        /\ IF Intact
           THEN /\ manifest_dir' = WriteFile(manifest_dir, manifest_file, <<>>)
                /\ raw_files' = RemoveFile(raw_files, manifest_file)
           ELSE /\ manifest_dir' = RemoveFile(manifest_dir, manifest_file)
                /\ raw_files' = WriteFile(raw_files, manifest_file, OverwrittenText)
        /\ writers' = [writers EXCEPT ![w].pc = "read"]
        /\ UNCHANGED <<mt_op, mt_in, mt_out, gpmVars, verVars, tagVars>>

\* update_version reads the manifest file; a file that holds no JSON
\* document makes json.load raise and the invocation ends
WriterRead(w) ==
    /\ writers[w].pc = "read"
    /\ IF ManifestFileOf(writers[w].entry[1]) \in DOMAIN manifest_dir
       THEN writers' = [writers EXCEPT
                ![w].pc = "write",
                ![w].data = Some(manifest_dir[ManifestFileOf(writers[w].entry[1])])]
       ELSE writers' = [writers EXCEPT ![w].pc = "failed"]
    /\ UNCHANGED <<manifest_dir, raw_files, mt_op, mt_in, mt_out, gpmVars, verVars, tagVars>>

\* mutant: the manifest is rebuilt from the record alone
UpdatedManifest_FromRecordAlone(data, entry) ==
    update_version(<<>>, entry.version, entry.filename, entry.arch,
                   entry.platform, entry.download_url,
                   IF "platform_version" \in DOMAIN entry
                   THEN Some(entry.platform_version) ELSE None, TRUE)

\* what update_version writes back: the content it read with the record added
UpdatedManifest(data, entry) ==
    update_version(data, entry.version, entry.filename, entry.arch,
                   entry.platform, entry.download_url,
                   IF "platform_version" \in DOMAIN entry
                   THEN Some(entry.platform_version) ELSE None, TRUE)

\* update_version writes the manifest file
WriterWrite(w) ==
    /\ writers[w].pc = "write"
    /\ manifest_dir' =
           WriteFile(manifest_dir, ManifestFileOf(writers[w].entry[1]),
                     UpdatedManifest(writers[w].data[1], writers[w].entry[1]))
    /\ raw_files' = RemoveFile(raw_files, ManifestFileOf(writers[w].entry[1]))
    /\ writers' = [writers EXCEPT ![w].pc = "done"]
    /\ UNCHANGED <<mt_op, mt_in, mt_out, gpmVars, verVars, tagVars>>

----------------------------------------------------------------------------
(* SDK tag resolver                                                        *)

Version(major, minor, patch, stage_priority, stage_number, build) ==
    [major |-> major, minor |-> minor, patch |-> patch,
     stage_priority |-> stage_priority, stage_number |-> stage_number,
     build |-> build]

\* the key of an unparseable string
ZeroVersion == Version(0, 0, 0, 0, 0, <<>>)

IsNumber(s) == Len(s) > 0 /\ \A i \in 1..Len(s) : IsDigit(CharAt(s, i))

\* mutant: a version without a stage gets no rank of its own
StagePriority_StableUnranked(stage) ==
    IF stage = "alpha" THEN 0
    ELSE IF stage = "preview" THEN 1
    ELSE IF stage = "rc" THEN 2
    ELSE IF stage = "rtm" THEN 3
    ELSE 0

\* alpha=0, preview=1, rc=2, rtm=3, stable=4
StagePriority(stage) ==
    IF stage = "alpha" THEN 0
    ELSE IF stage = "preview" THEN 1
    ELSE IF stage = "rc" THEN 2
    ELSE IF stage = "rtm" THEN 3
    ELSE 4

StageNames == {"alpha", "preview", "rc", "rtm"}

StripV(tag) == IF StartsWith(tag, "v") THEN DropFirst(tag, 1) ELSE tag

\* MAJOR.MINOR.PATCH[-STAGE[.N[.BUILD...]]] with or without a leading v
sdk_parse_version(raw) ==
    LET halves == Split(StripV(raw), "-")
        core == Split(halves[1], ".")
        suffix == IF Len(halves) >= 2 THEN Split(halves[2], ".") ELSE <<>>
        numbers == IF suffix = <<>> THEN <<>> ELSE Tail(suffix)
        coreOk == Len(core) = 3 /\ \A i \in 1..3 : IsNumber(core[i])
        suffixOk ==
            /\ Len(halves) <= 2
            /\ suffix # <<>> => suffix[1] \in StageNames
            /\ \A i \in 1..Len(numbers) : IsNumber(numbers[i])
    IN  IF ~(coreOk /\ suffixOk) THEN ZeroVersion
        ELSE Version(ToInt(core[1]), ToInt(core[2]), ToInt(core[3]),
                     StagePriority(IF suffix = <<>> THEN "stable" ELSE suffix[1]),
                     IF numbers = <<>> THEN 0 ELSE ToInt(numbers[1]),
                     IF numbers = <<>> THEN <<>>
                     ELSE [i \in 1..(Len(numbers) - 1) |-> ToInt(numbers[i + 1])])

\* the fields in comparison order, the build tuple last
KeyOf(v) ==
    <<v.major, v.minor, v.patch, v.stage_priority, v.stage_number>> \o v.build

\* tuple order: the first difference decides, a proper prefix is smaller
RECURSIVE KeyLessFrom(_, _, _)
KeyLessFrom(ka, kb, i) ==
    IF i > Len(ka) THEN i <= Len(kb)
    ELSE IF i > Len(kb) THEN FALSE
    ELSE IF ka[i] # kb[i] THEN ka[i] < kb[i]
    ELSE KeyLessFrom(ka, kb, i + 1)

VersionLess(a, b) == KeyLessFrom(KeyOf(a), KeyOf(b), 1)

VersionLeq(a, b) == ~VersionLess(b, a)

TagVersion(release) == sdk_parse_version(release.tag_name)

\* the first release of greatest key among the candidates; best is None or
\* <<release>>
RECURSIVE GreatestTag(_, _, _)
GreatestTag(candidates, i, best) ==
    IF i > Len(candidates) THEN best
    ELSE IF best = None \/ VersionLess(TagVersion(best[1]), TagVersion(candidates[i]))
    THEN GreatestTag(candidates, i + 1, Some(candidates[i]))
    ELSE GreatestTag(candidates, i + 1, best)

RECURSIVE SmallestTag(_, _, _)
SmallestTag(candidates, i, best) ==
    IF i > Len(candidates) THEN best
    ELSE IF best = None \/ VersionLess(TagVersion(candidates[i]), TagVersion(best[1]))
    THEN SmallestTag(candidates, i + 1, Some(candidates[i]))
    ELSE SmallestTag(candidates, i + 1, best)

TagNameOf(best) == IF best = None THEN None ELSE Some(best[1].tag_name)

\* mutant: the closest higher tag is tried before the closest lower one
find_closest_version_tag_HigherFirst(releases, requested) ==
    LET wanted == StripV(requested)
        key == sdk_parse_version(requested)
        IsExact(r) == StripV(r.tag_name) = wanted
        HasPrefix(r) == StartsWith(StripV(r.tag_name), wanted \o ".")
        IsLower(r) == VersionLeq(TagVersion(r), key)
        IsHigher(r) == VersionLeq(key, TagVersion(r))
    IN  IF SelectSeq(releases, IsExact) # <<>>
        THEN Some(SelectSeq(releases, IsExact)[1].tag_name)
        ELSE IF SelectSeq(releases, HasPrefix) # <<>>
        THEN TagNameOf(GreatestTag(SelectSeq(releases, HasPrefix), 1, None))
        ELSE IF SelectSeq(releases, IsHigher) # <<>>
        THEN TagNameOf(SmallestTag(SelectSeq(releases, IsHigher), 1, None))
        ELSE TagNameOf(GreatestTag(SelectSeq(releases, IsLower), 1, None))

\* exact match, else the greatest tag under the requested prefix, else the
\* closest lower tag, else the closest higher one; None when there is no tag
find_closest_version_tag(releases, requested) ==
    LET wanted == StripV(requested)
        key == sdk_parse_version(requested)
        IsExact(r) == StripV(r.tag_name) = wanted
        HasPrefix(r) == StartsWith(StripV(r.tag_name), wanted \o ".")
        IsLower(r) == VersionLeq(TagVersion(r), key)
        IsHigher(r) == VersionLeq(key, TagVersion(r))
    IN  IF SelectSeq(releases, IsExact) # <<>>
        THEN Some(SelectSeq(releases, IsExact)[1].tag_name)
        ELSE IF SelectSeq(releases, HasPrefix) # <<>>
        THEN TagNameOf(GreatestTag(SelectSeq(releases, HasPrefix), 1, None))
        ELSE IF SelectSeq(releases, IsLower) # <<>>
        THEN TagNameOf(GreatestTag(SelectSeq(releases, IsLower), 1, None))
        ELSE TagNameOf(SmallestTag(SelectSeq(releases, IsHigher), 1, None))

\* the outcome of resolve_tag: a returned value (None or <<tag_name>>) or
\* typer.Exit raised
Returned(value) == [status |-> "returned", value |-> value]
Exit == [status |-> "exit"]

\* resolve_tag(tag_input, releases): None passes through, an exact match is
\* returned, else the greatest tag under the requested prefix; without a
\* match typer.Exit is raised (test_resolve_tag_no_match)
resolve_tag(tag_input, releases) ==
    IF tag_input = None THEN Returned(None)
    ELSE LET wanted == StripV(tag_input[1])
             IsExact(r) == StripV(r.tag_name) = wanted
             HasPrefix(r) == StartsWith(StripV(r.tag_name), wanted \o ".")
         IN  IF SelectSeq(releases, IsExact) # <<>>
             THEN Returned(Some(SelectSeq(releases, IsExact)[1].tag_name))
             ELSE IF SelectSeq(releases, HasPrefix) # <<>>
             THEN Returned(TagNameOf(GreatestTag(SelectSeq(releases, HasPrefix), 1, None)))
             ELSE Exit

\* inputs of the tag resolver
MaxTags == 3

Release(tag_name) == [tag_name |-> tag_name]

TagNames ==
    {"v9.0.100", "v8.0.400", "v8.0.300", "v7.0.400",
     "v8.0.400-rc.1.23480.5", "v9.0.0-preview.7.25351.106"}

\* conftest.py sample_dotnet_releases
SampleReleases ==
    <<Release("v9.0.100"), Release("v8.0.400"), Release("v8.0.300"),
      Release("v7.0.400")>>

\* release lists without a repeated tag
ReleaseLists ==
    {SampleReleases} \cup
    {releases \in UNION {[1..n -> {Release(t) : t \in TagNames}] : n \in 0..MaxTags} :
        \A i, j \in 1..Len(releases) : releases[i] = releases[j] => i = j}

RequestedTags ==
    {"v9.0.100", "8.0.300", "v9.0", "v8.0.350", "v6.0.0", "v10.0.0",
     "v8.0.400-rc.2", "v8.0.400-rc.1.23480.4", "v9.0.0-preview.7.25351.1000"}

TagIdle == tag_op = "none" /\ tag_in = <<>> /\ tag_out = <<>>

FindClosestVersionTag ==
    /\ tag_op = "none"
    /\ \E releases \in ReleaseLists, requested \in RequestedTags :
          /\ tag_op' = "find_closest_version_tag"
          /\ tag_in' = [releases |-> releases, requested |-> requested]
          /\ tag_out' = find_closest_version_tag(releases, requested)
    /\ UNCHANGED <<gpmVars, verVars, mtVars>>

\* version strings of the four-stage scheme
SdkVersions ==
    {"v9.0.0", "9.0.0", "v9.0.100", "v8.0.400", "v10.0.0", "v9.1.0-alpha.1",
     "v9.0.0-alpha.1.23456", "v9.0.0-preview.1", "v9.0.0-preview.2",
     "v9.0.0-preview.10", "v9.0.0-preview.7.25351",
     "v9.0.0-preview.7.25351.106", "v9.0.0-preview.7.25351.1000",
     "v9.0.0-rc.2.23480.5", "v9.0.0-rtm.24503.15"}

\* two version strings parsed and their keys compared
SdkCompare ==
    /\ tag_op = "none"
    /\ \E a \in SdkVersions, b \in SdkVersions :
          /\ tag_op' = "compare"
          /\ tag_in' = [a |-> a, b |-> b]
          /\ tag_out' = [a |-> sdk_parse_version(a), b |-> sdk_parse_version(b),
                         less |-> VersionLess(sdk_parse_version(a),
                                              sdk_parse_version(b))]
    /\ UNCHANGED <<gpmVars, verVars, mtVars>>

ResolveTag ==
    /\ tag_op = "none"
    /\ \E releases \in ReleaseLists,
          tag_input \in {None} \cup {Some(t) : t \in RequestedTags} :
          /\ tag_op' = "resolve_tag"
          /\ tag_in' = [releases |-> releases, tag_input |-> tag_input]
          /\ tag_out' = resolve_tag(tag_input, releases)
    /\ UNCHANGED <<gpmVars, verVars, mtVars>>

----------------------------------------------------------------------------
(* Specifications                                                          *)

\* generate_partial_manifest.py on the bounded inputs
InitManifestGen ==
    GpmIdle /\ VerIdle /\ MtIdle /\ TagIdle /\ manifest = SampleManifest
NextManifestGen ==
    \/ ValidateDownloadUrl
    \/ ParseFilename
    \/ ShouldSkip
    \/ BuildManifestEntries
    \/ Main
SpecManifestGen == InitManifestGen /\ [][NextManifestGen]_vars

\* the static methods of PythonManifestParser on the bounded version strings
InitOrder ==
    GpmIdle /\ VerIdle /\ MtIdle /\ TagIdle /\ manifest = SampleManifest
NextOrder ==
    \/ ParseVersion
    \/ VersionCompare
    \/ Classify
SpecOrder == InitOrder /\ [][NextOrder]_vars

\* the filtering methods on every bounded manifest
InitFilter ==
    /\ GpmIdle /\ VerIdle /\ MtIdle /\ TagIdle
    /\ manifest \in Manifests \cup {SampleManifest}
NextFilter ==
    \/ FilterVersions
    \/ ListVersions
    \/ GetLatestVersion
    \/ VersionMatchesFilter
SpecFilter == InitFilter /\ [][NextFilter]_vars

\* manifest_merge on every pair of bounded manifests
InitMerge ==
    GpmIdle /\ VerIdle /\ MtIdle /\ TagIdle /\ manifest = SampleManifest
NextMerge ==
    \/ ManifestMerge
SpecMerge == InitMerge /\ [][NextMerge]_vars

\* any sequence of update_version and apply_entries calls on an initially
\* empty manifest directory
InitApply ==
    GpmIdle /\ VerIdle /\ MtIdle /\ TagIdle /\ manifest = SampleManifest
NextApply ==
    \/ UpdateVersion
    \/ ApplyEntries
    \/ ApplyPartialManifestsMain
    \/ EnsureManifestFile
SpecApply == InitApply /\ [][NextApply]_vars

\* two concurrent invocations of apply_entries on one manifest directory
InitWriters ==
    GpmIdle /\ VerIdle /\ MtIdle /\ TagIdle /\ manifest = SampleManifest
NextWriters ==
    \/ \E w \in Writers : WriterStart(w)
    \/ \E w \in Writers : WriterExists(w)
    \/ \E w \in Writers : WriterOpen(w)
    \/ \E w \in Writers : WriterCreate(w)
    \/ \E w \in Writers : WriterRead(w)
    \/ \E w \in Writers : WriterWrite(w)
SpecWriters == InitWriters /\ [][NextWriters]_vars

\* the tag resolver on every bounded release list
InitTags ==
    GpmIdle /\ VerIdle /\ MtIdle /\ TagIdle /\ manifest = SampleManifest
NextTags ==
    \/ FindClosestVersionTag
    \/ ResolveTag
    \/ SdkCompare
SpecTags == InitTags /\ [][NextTags]_vars

----------------------------------------------------------------------------
(* Properties of generate_partial_manifest, checked under SpecManifestGen  *)

AssetName(asset) == Get(asset, "name", "")
AssetUrl(asset) == Get(asset, "browser_download_url", "")

\* the number of positions of seq whose element satisfies Test
Count(seq, Test(_)) == Cardinality({i \in 1..Len(seq) : Test(seq[i])})

\* the name of a security-scan artifact or of something that is no archive
SkipNamed(name) == ~EndsWith(name, ".tar.gz") \/ Contains(name, "trivy")

\* C1: validate_download_url accepts a URL only if it is the release URL
\* of exactly the given tag and filename, and build_manifest_entries emits
\* no entry for an asset whose URL has another tag segment or filename.
C1_ExactTagAndFilenameRequired ==
    /\ (gpm_op = "validate_download_url" /\ gpm_out = TRUE)
           => gpm_in.url = CanonicalUrl(gpm_in.owner, gpm_in.repo,
                                        gpm_in.tag, gpm_in.filename)
    /\ gpm_op = "build_manifest_entries"
           => LET Exact(asset) ==
                      AssetUrl(asset) = CanonicalUrl(gpm_in.owner, gpm_in.repo,
                                                     gpm_in.tag, AssetName(asset))
              IN  Len(gpm_out.entries) <= Count(gpm_in.assets, Exact)

\* C2 as claimed: main fails (exit code 1, nothing on stdout) exactly when
\* no entry results from a non-empty asset list, and otherwise exits 0 with
\* the entries as output.
C2_FailsExactlyWhenNoEntrySurvives ==
    (gpm_op = "main" /\ gpm_in.load.status = "ok")
        => LET built == build_manifest_entries(gpm_in.tag, gpm_in.load.assets_read,
                                               gpm_in.owner, gpm_in.repo)
           IN  IF built.entries = <<>> /\ gpm_in.load.assets_read # <<>>
               THEN gpm_out.exit_code = 1 /\ gpm_out.stdout = <<>>
               ELSE gpm_out.exit_code = 0 /\ gpm_out.stdout = <<built.entries>>

\* C2 as amended: main fails (exit code 1, nothing on stdout) exactly when
\* the assets cannot be loaded, or no entry results and at least one asset
\* was reported as a validation error; otherwise it exits 0 with the
\* entries as output, also when every asset of a non-empty list was skipped.
C2_FailsExactlyWhenErrorsAndNoEntry ==
    gpm_op = "main"
        => LET loaded == gpm_in.load.status = "ok"
               built == build_manifest_entries(gpm_in.tag, gpm_in.load.assets_read,
                                               gpm_in.owner, gpm_in.repo)
           IN  IF ~loaded \/ (built.entries = <<>> /\ built.errors # <<>>)
               THEN gpm_out.exit_code = 1 /\ gpm_out.stdout = <<>>
               ELSE gpm_out.exit_code = 0 /\ gpm_out.stdout = <<built.entries>>

\* main has failed on a loaded asset list: errors, and no entry
C2_Witness ==
    /\ gpm_op = "main"
    /\ gpm_in.load.status = "ok"
    /\ Len(gpm_in.load.assets_read) = 2
    /\ gpm_out.exit_code = 1
    /\ gpm_out.stdout = <<>>

\* C3: every entry build_manifest_entries emits has download_url equal to
\* https://github.com/{owner}/{repo}/releases/download/{tag}/{asset name},
\* whatever browser_download_url the asset supplied.
C3_DownloadUrlIsCanonical ==
    gpm_op = "build_manifest_entries"
        => \A k \in 1..Len(gpm_out.entries) :
               LET entry == gpm_out.entries[k]
               IN  /\ \E i \in 1..Len(gpm_in.assets) :
                          AssetName(gpm_in.assets[i]) = entry.filename
                   /\ entry.download_url =
                          "https://github.com/" \o gpm_in.owner \o "/" \o gpm_in.repo
                              \o "/releases/download/" \o gpm_in.tag \o "/"
                              \o entry.filename

\* an entry was emitted for an asset that supplied another URL
C3_Witness ==
    /\ gpm_op = "build_manifest_entries"
    /\ Len(gpm_in.assets) = 1
    /\ Len(gpm_out.entries) = 1
    /\ AssetUrl(gpm_in.assets[1]) # gpm_out.entries[1].download_url

\* C4: build_manifest_entries never aborts on a bad asset: each asset is
\* exactly one of skipped, one error message, one entry, so the three counts
\* add up to the number of assets; an asset failing filename parsing or URL
\* validation gives one error and no entry, and the entries are the
\* remaining non-skipped assets in input order.
C4_EveryAssetAccountedFor ==
    gpm_op = "build_manifest_entries"
        => LET assets == gpm_in.assets
               Skipped(a) == should_skip(AssetName(a))
               Failed(a) ==
                   /\ ~Skipped(a)
                   /\ \/ parse_filename(AssetName(a)) = None
                      \/ ~validate_download_url(AssetUrl(a), gpm_in.owner,
                              gpm_in.repo, gpm_in.tag, AssetName(a))
               Accepted(a) == ~Skipped(a) /\ ~Failed(a)
               bad == SelectSeq(assets, Failed)
               good == SelectSeq(assets, Accepted)
           IN  /\ Count(assets, Skipped) + Len(gpm_out.errors) + Len(gpm_out.entries)
                      = Len(assets)
               /\ Len(gpm_out.errors) = Len(bad)
               /\ \A k \in 1..Len(bad) :
                      \/ gpm_out.errors[k] = "Filename parsing failed for asset '"
                                                 \o AssetName(bad[k]) \o "'"
                      \/ StartsWith(gpm_out.errors[k],
                             "Invalid download_url for '" \o AssetName(bad[k]) \o "'")
               /\ Len(gpm_out.entries) = Len(good)
               /\ \A k \in 1..Len(good) :
                      gpm_out.entries[k].filename = AssetName(good[k])

\* a bad asset came first and the asset behind it still gave its entry
C4_Witness ==
    /\ gpm_op = "build_manifest_entries"
    /\ Len(gpm_in.assets) = 2
    /\ AssetName(gpm_in.assets[1]) = ShortName
    /\ Len(gpm_out.errors) = 1
    /\ Len(gpm_out.entries) = 1
    /\ gpm_out.entries[1].filename = AssetName(gpm_in.assets[2])

\* C5: an asset whose name does not end with ".tar.gz" or contains "trivy"
\* is skipped silently: the result is the one for the asset list without
\* it, with neither an entry nor an error for it, whatever its URL.
C5_SkippedAssetsLeaveNoTrace ==
    gpm_op = "build_manifest_entries"
        => LET Kept(a) == ~SkipNamed(AssetName(a))
               kept == SelectSeq(gpm_in.assets, Kept)
           IN  /\ gpm_out = build_manifest_entries(gpm_in.tag, kept,
                                                   gpm_in.owner, gpm_in.repo)
               /\ Len(gpm_out.entries) + Len(gpm_out.errors) = Len(kept)
               /\ \A k \in 1..Len(gpm_out.entries) :
                      ~SkipNamed(gpm_out.entries[k].filename)

\* only skipped assets with URLs outside the release: nothing is reported
C5_Witness ==
    /\ gpm_op = "build_manifest_entries"
    /\ Len(gpm_in.assets) = 2
    /\ AssetName(gpm_in.assets[1]) = TrivyName
    /\ AssetName(gpm_in.assets[2]) = LogName
    /\ \A i \in 1..2 : ~StartsWith(AssetUrl(gpm_in.assets[i]), ReleaseBase)
    /\ gpm_out.entries = <<>>
    /\ gpm_out.errors = <<>>

\* filename without the first of "python-", "trivy-python-" it starts with
WithoutPrefix(filename) ==
    IF StartsWith(filename, "python-") THEN DropFirst(filename, Len("python-"))
    ELSE IF StartsWith(filename, "trivy-python-")
    THEN DropFirst(filename, Len("trivy-python-"))
    ELSE filename

\* s without the first of ".tar.gz", ".sbom.json", ".json", ".log" it ends with
WithoutSuffix(s) ==
    IF EndsWith(s, ".tar.gz") THEN DropLast(s, Len(".tar.gz"))
    ELSE IF EndsWith(s, ".sbom.json") THEN DropLast(s, Len(".sbom.json"))
    ELSE IF EndsWith(s, ".json") THEN DropLast(s, Len(".json"))
    ELSE IF EndsWith(s, ".log") THEN DropLast(s, Len(".log"))
    ELSE s

Hyphens(s) == Cardinality({i \in 1..Len(s) : CharAt(s, i) = "-"})

\* C6: parse_filename removes at most one known prefix and at most one
\* known suffix (the first match in their order), splits the rest on "-"
\* and returns None if and only if fewer than 4 fields result; otherwise the
\* first four fields are version, platform, platform_version and arch, and
\* further fields are ignored.
C6_ParseFilenameFields ==
    gpm_op = "parse_filename"
        => LET rest == WithoutSuffix(WithoutPrefix(gpm_in.filename))
           IN  /\ (gpm_out = None) <=> (Hyphens(rest) < 3)
               /\ gpm_out # None
                      => LET f == gpm_out[1]
                             head == f.version \o "-" \o f.platform \o "-"
                                         \o f.platform_version \o "-" \o f.arch
                         IN  /\ Hyphens(head) = 3
                             /\ \/ rest = head
                                \/ StartsWith(rest, head \o "-")

\* a name with a known prefix, a known suffix and a fifth field was parsed
C6_Witness ==
    /\ gpm_op = "parse_filename"
    /\ gpm_in.filename = LongName
    /\ gpm_out = Some([version |-> "3.12.0", platform |-> "linux",
                       platform_version |-> "24.04", arch |-> "s390x"])

----------------------------------------------------------------------------
(* Properties of the version order, checked under SpecOrder                *)

\* base-stage and base-stage.N for every sub-ordinal N of the model
HyphenatedPreReleases(base, stage) ==
    {base \o "-" \o stage} \cup
    {base \o "-" \o stage \o "." \o ToStr(n) : n \in SubOrdinals}

\* C7: with equal major, minor and patch a stable version compares
\* strictly greater than any pre-release version (alpha, beta or rc, with or
\* without a numeric sub-ordinal), never equal to it, and across stages
\* rc > beta > alpha.
C7_StableAbovePreRelease ==
    ver_op = "version_compare"
        => \A base \in Bases :
               /\ \A stage \in Stages :
                      (ver_in.a = base /\ ver_in.b \in HyphenatedPreReleases(base, stage))
                          => ver_out = 1
               /\ (ver_in.a \in HyphenatedPreReleases(base, "rc")
                       /\ ver_in.b \in HyphenatedPreReleases(base, "beta"))
                      => ver_out = 1
               /\ (ver_in.a \in HyphenatedPreReleases(base, "beta")
                       /\ ver_in.b \in HyphenatedPreReleases(base, "alpha"))
                      => ver_out = 1

\* C8: within one pre-release stage of the same major.minor.patch the
\* version with the higher numeric sub-ordinal is the more recent one:
\* version_compare(X-stage.N, X-stage.M) > 0 whenever N > M.
C8_HigherSubOrdinalIsGreater ==
    ver_op = "version_compare"
        => \A base \in Bases, stage \in Stages, n \in SubOrdinals, m \in SubOrdinals :
               (/\ n > m
                /\ ver_in.a = base \o "-" \o stage \o "." \o ToStr(n)
                /\ ver_in.b = base \o "-" \o stage \o "." \o ToStr(m))
                   => ver_out > 0

\* exactly one of the four classes
OneClass(c) ==
    Cardinality({k \in {"is_alpha", "is_beta", "is_rc", "is_stable"} : c[k]}) = 1

\* C9 as claimed: for every version string is_stable holds if and only if
\* none of is_alpha, is_beta, is_rc holds, and at most one of is_alpha,
\* is_beta, is_rc holds.
C9_ExactlyOneClass ==
    ver_op = "classify"
        => /\ ver_out.is_stable <=> ~(ver_out.is_alpha \/ ver_out.is_beta \/ ver_out.is_rc)
           /\ OneClass(ver_out)

\* C9 as amended: for every version string is_stable holds if and only if
\* none of is_alpha, is_beta, is_rc holds; exactly one of the four holds for
\* MAJOR.MINOR.PATCH with no stage suffix or a single one.
C9_OneClassForSingleStage ==
    ver_op = "classify"
        => /\ ver_out.is_stable <=> ~(ver_out.is_alpha \/ ver_out.is_beta \/ ver_out.is_rc)
           /\ ver_in.version \in StagedVersions \cup StableVersions => OneClass(ver_out)
           /\ \A base \in Bases, stage \in Stages :
                  ver_in.version \in HyphenatedPreReleases(base, stage)
                      => ver_out["is_" \o stage]

\* a release candidate was classified: rc, and nothing else
C9_Witness ==
    /\ ver_op = "classify"
    /\ ver_in.version = "3.11.0-rc.1"
    /\ ver_out = [is_alpha |-> FALSE, is_beta |-> FALSE, is_rc |-> TRUE,
                  is_stable |-> FALSE]

----------------------------------------------------------------------------
(* Properties of the filter, checked under SpecFilter                      *)

\* the versions filter_versions looks at, in manifest order
RECURSIVE VersionsFrom(_, _)
VersionsFrom(entries, i) ==
    IF i > Len(entries) THEN <<>>
    ELSE IF "version" \in DOMAIN entries[i] /\ entries[i].version # ""
    THEN <<entries[i].version>> \o VersionsFrom(entries, i + 1)
    ELSE VersionsFrom(entries, i + 1)

\* the stage of a version by the fixed priority alpha, beta, rc, else stable
ClassifiedStage(version) ==
    IF is_alpha(version) THEN "alpha"
    ELSE IF is_beta(version) THEN "beta"
    ELSE IF is_rc(version) THEN "rc"
    ELSE "stable"

\* every stage whose cue the version matches; stable when it matches none
MatchedStages(version) ==
    {st \in {"alpha", "beta", "rc", "stable"} :
        \/ st = "alpha" /\ is_alpha(version)
        \/ st = "beta" /\ is_beta(version)
        \/ st = "rc" /\ is_rc(version)
        \/ st = "stable" /\ is_stable(version)}

\* the release types filter_versions was asked for, as a set
RequestedTypes ==
    IF ver_in.release_types.kind = "none" THEN {"stable"}
    ELSE IF ver_in.release_types.kind = "str" THEN {ver_in.release_types.value}
    ELSE {ver_in.release_types.value[i] : i \in 1..Len(ver_in.release_types.value)}

NoFilterGiven == ver_in.version_filter \in {None, Some("")}

\* C10 as claimed: filter_versions includes a version if and only if its
\* classified stage (priority alpha, beta, rc, else stable) is a member of
\* release_types, whatever the other fields of the entry say.
C10_ClassifiedStageDecides ==
    (ver_op = "filter_versions" /\ NoFilterGiven)
        => LET Wanted(v) == ClassifiedStage(v) \in RequestedTypes
           IN  ver_out = SelectSeq(VersionsFrom(manifest, 1), Wanted)

\* C10 as amended: filter_versions includes a non-empty version if and
\* only if release_types holds at least one stage whose cue the version
\* matches (stable when it matches none) and the version matches the filter
\* when one is given; no other field of the entry is read.
C10_AnyMatchedStageDecides ==
    ver_op = "filter_versions"
        => LET Wanted(v) ==
                   /\ MatchedStages(v) \cap RequestedTypes # {}
                   /\ NoFilterGiven
                          \/ version_matches_filter(v, ver_in.version_filter[1])
           IN  ver_out = SelectSeq(VersionsFrom(manifest, 1), Wanted)

\* a release candidate flagged stable was left out and a stable version
\* flagged unstable was included when stable versions were asked for
C10_Witness ==
    /\ ver_op = "filter_versions"
    /\ ver_in.release_types = TypeList(<<"stable">>)
    /\ manifest = <<Entry("3.11.0-rc.10", TRUE), Entry("3.12.5", FALSE)>>
    /\ ver_out = <<"3.12.5">>

\* the three ways of asking for stable versions only
StableArgs ==
    {[kind |-> "none"], [kind |-> "str", value |-> "stable"], TypeList(<<"stable">>)}

\* C11: filter_versions with release_types omitted, with release_types =
\* 'stable' and with release_types = ['stable'] returns the same list, and
\* without a version filter that list is exactly the manifest versions for
\* which is_stable holds, in manifest order.
C11_StableIsTheDefault ==
    (ver_op = "filter_versions" /\ ver_in.release_types \in StableArgs)
        => /\ \A release_types \in StableArgs :
                  ver_out = filter_versions(manifest, release_types,
                                            ver_in.version_filter)
           /\ NoFilterGiven
                  => ver_out = SelectSeq(VersionsFrom(manifest, 1), is_stable)

\* the sample manifest filtered with release_types omitted
C11_Witness ==
    /\ ver_op = "filter_versions"
    /\ manifest = SampleManifest
    /\ ver_in.release_types = [kind |-> "none"]
    /\ ver_in.version_filter = None
    /\ ver_out = <<"3.13.0", "3.12.5", "3.8.10">>

\* The glob reading of a pattern: the pattern is its literal pieces with a
\* "*" between neighbours; the version is the pieces in order, the first at
\* its start and the last at its end, with any text between two neighbours.
\* Covered(gap) restricts the text a "*" may stand for.
GlobMatches(version, pattern, Covered(_)) ==
    LET pieces == Split(pattern, "*")
        k == Len(pieces)
        PieceEnd(start, i) == start[i] + Len(pieces[i])
    IN  \E start \in [1..k -> 1..(Len(version) + 1)] :
            /\ start[1] = 1
            /\ PieceEnd(start, k) = Len(version) + 1
            /\ \A i \in 1..k :
                   /\ PieceEnd(start, i) <= Len(version) + 1
                   /\ SubSeq(version, start[i], PieceEnd(start, i) - 1) = pieces[i]
            /\ \A i \in 1..(k - 1) :
                   /\ PieceEnd(start, i) <= start[i + 1]
                   /\ Covered(SubSeq(version, PieceEnd(start, i), start[i + 1] - 1))

AnyText(gap) == TRUE

OneLine(gap) == ~Contains(gap, "\n")

\* what is left of the claim for filter_versions: with a filter, only
\* matching versions are returned
OnlyMatchingReturned(Covered(_)) ==
    (ver_op = "filter_versions" /\ ~NoFilterGiven)
        => \A i \in 1..Len(ver_out) :
               GlobMatches(ver_out[i], ver_in.version_filter[1], Covered)

\* C12 as claimed: version_matches_filter is a full-string match in which
\* each "*" stands for zero or more arbitrary characters and every other
\* pattern character for itself, and with a filter filter_versions returns
\* only versions that match it.
C12_StarIsAnyText ==
    /\ ver_op = "version_matches_filter"
           => ver_out = GlobMatches(ver_in.version, ver_in.pattern, AnyText)
    /\ OnlyMatchingReturned(AnyText)

\* C12 as amended: as claimed, except that a "*" stands for zero or more
\* characters other than a line feed.
C12_StarIsAnyTextOfOneLine ==
    /\ ver_op = "version_matches_filter"
           => ver_out = GlobMatches(ver_in.version, ver_in.pattern, OneLine)
    /\ OnlyMatchingReturned(OneLine)

\* '3.13.5' was matched by '3.*.5' with the "*" covering "13"
C12_Witness ==
    /\ ver_op = "version_matches_filter"
    /\ ver_in = [version |-> "3.13.5", pattern |-> "3.*.5"]
    /\ ver_out = TRUE

\* how often x occurs in seq
Occurrences(seq, x) == Cardinality({i \in 1..Len(seq) : seq[i] = x})

Elements(seq) == {seq[i] : i \in 1..Len(seq)}

IsPermutation(a, b) ==
    /\ Len(a) = Len(b)
    /\ \A x \in Elements(a) \cup Elements(b) : Occurrences(a, x) = Occurrences(b, x)

\* what filter_versions returns for the arguments of the call just made
Filtered == filter_versions(manifest, ver_in.release_types, ver_in.version_filter)

\* C13: list_versions returns a permutation of what filter_versions returns
\* for the same arguments, ordered latest first: version_compare of every
\* adjacent pair is >= 0.
C13_ListIsSortedPermutation ==
    ver_op = "list_versions"
        => /\ IsPermutation(ver_out, Filtered)
           /\ \A i \in 1..(Len(ver_out) - 1) :
                  version_compare(ver_out[i], ver_out[i + 1]) >= 0

\* two stable versions listed in the opposite of their manifest order
C13_Witness ==
    /\ ver_op = "list_versions"
    /\ manifest = <<Entry("3.12.5", FALSE), Entry("3.13.0", TRUE)>>
    /\ ver_in.release_types = TypeList(<<"stable">>)
    /\ ver_out = <<"3.13.0", "3.12.5">>

\* C14: get_latest_version returns none if and only if filter_versions
\* returns an empty list for the same arguments; otherwise it returns the
\* first element of list_versions, which is one of the filtered versions
\* and compares >= every filtered version.
C14_LatestIsFirstListed ==
    ver_op = "get_latest_version"
        => /\ ver_out = None <=> Filtered = <<>>
           /\ ver_out # None
                  => /\ ver_out[1] = list_versions(manifest, ver_in.release_types,
                                                    ver_in.version_filter)[1]
                     /\ ver_out[1] \in Elements(Filtered)
                     /\ \A v \in Elements(Filtered) :
                            version_compare(ver_out[1], v) >= 0

\* the release candidate of the sample manifest
C14_Witness ==
    /\ ver_op = "get_latest_version"
    /\ manifest = SampleManifest
    /\ ver_in.release_types = TypeList(<<"rc">>)
    /\ ver_in.version_filter = None
    /\ ver_out = Some("3.11.0-rc.1")

\* the manifest without the entries that have no version or an empty one
RECURSIVE WithoutUnversioned(_)
WithoutUnversioned(entries) ==
    IF entries = <<>> THEN <<>>
    ELSE IF "version" \in DOMAIN Head(entries) /\ Head(entries).version # ""
    THEN <<Head(entries)>> \o WithoutUnversioned(Tail(entries))
    ELSE WithoutUnversioned(Tail(entries))

\* C15: entries whose version is missing or empty are excluded by
\* filter_versions, list_versions and get_latest_version: the empty string
\* is never in a result and the result is the one for the manifest without
\* those entries.
C15_UnversionedEntriesIgnored ==
    LET rest == WithoutUnversioned(manifest)
        release_types == ver_in.release_types
        version_filter == ver_in.version_filter
    IN  /\ ver_op = "filter_versions"
               => /\ ver_out = filter_versions(rest, release_types, version_filter)
                  /\ "" \notin Elements(ver_out)
        /\ ver_op = "list_versions"
               => /\ ver_out = list_versions(rest, release_types, version_filter)
                  /\ "" \notin Elements(ver_out)
        /\ ver_op = "get_latest_version"
               => /\ ver_out = get_latest_version(rest, release_types, version_filter)
                  /\ ver_out # Some("")

\* an entry with an empty version next to a stable one, listed
C15_Witness ==
    /\ ver_op = "list_versions"
    /\ manifest = <<Entry("", TRUE), Entry("3.13.0", TRUE)>>
    /\ ver_in.release_types = [kind |-> "none"]
    /\ ver_out = <<"3.13.0">>

----------------------------------------------------------------------------
(* Properties of manifest_merge, checked under SpecMerge                   *)

VersionsOf(entries) == [i \in 1..Len(entries) |-> entries[i].version]

FilenamesOf(files) == {files[i].filename : i \in 1..Len(files)}

IsPrefix(a, b) == Len(a) <= Len(b) /\ SubSeq(b, 1, Len(a)) = a

\* C16: manifest merge is idempotent: merging the incoming manifest into
\* the merged manifest once more changes nothing, and a manifest merged
\* with itself is that manifest, every entry with as many files as before.
C16_MergeIsIdempotent ==
    mt_op = "manifest_merge"
        => /\ manifest_merge(mt_out, mt_in.incoming) = mt_out
           /\ mt_in.existing = mt_in.incoming
                  => /\ mt_out = mt_in.existing
                     /\ \A i \in 1..Len(mt_out) :
                            Len(mt_out[i].files) = Len(mt_in.existing[i].files)

\* a one-entry manifest with one file merged with itself
C16_Witness ==
    /\ mt_op = "manifest_merge"
    /\ mt_in.existing = <<ManifestEntry("3.13.0", TRUE, TagUrl("3.13.0"), <<X64File>>)>>
    /\ mt_in.incoming = mt_in.existing
    /\ Len(mt_out) = 1
    /\ Len(mt_out[1].files) = 1

\* C17: the merged manifest starts with the existing entries in their
\* order, each unchanged but for files added behind its existing files,
\* and goes on with the versions that only incoming has, in incoming order.
C17_ExistingKeptInPlace ==
    mt_op = "manifest_merge"
        => LET existing == mt_in.existing
               incoming == mt_in.incoming
               n == Len(existing)
               Unseen(version) == version \notin Elements(VersionsOf(existing))
           IN  /\ Len(mt_out) >= n
               /\ \A i \in 1..n :
                      /\ [mt_out[i] EXCEPT !.files = <<>>] = [existing[i] EXCEPT !.files = <<>>]
                      /\ IsPrefix(existing[i].files, mt_out[i].files)
               /\ SubSeq(VersionsOf(mt_out), n + 1, Len(mt_out))
                      = SelectSeq(VersionsOf(incoming), Unseen)

\* two existing entries, an incoming manifest with a new version ahead of
\* a known one
C17_Witness ==
    /\ mt_op = "manifest_merge"
    /\ mt_in.existing = <<ManifestEntry("3.12.0", TRUE, TagUrl("3.12.0"), <<>>),
                           ManifestEntry("3.13.0", TRUE, TagUrl("3.13.0"), <<X64File>>)>>
    /\ mt_in.incoming = <<ManifestEntry("3.11.0", TRUE, TagUrl("3.11.0"), <<>>),
                           ManifestEntry("3.13.0", TRUE, TagUrl("3.13.0"), <<Arm64File>>)>>
    /\ VersionsOf(mt_out) = <<"3.12.0", "3.13.0", "3.11.0">>
    /\ mt_out[2].files = <<X64File, Arm64File>>

\* C18: an entry of the merged manifest whose version both inputs have
\* holds the union of their files keyed by filename, each filename once;
\* inputs with unique versions and unique filenames per entry give a merged
\* manifest with unique versions and unique filenames per entry.
C18_UnionKeyedByFilename ==
    mt_op = "manifest_merge"
        => LET existing == mt_in.existing
               incoming == mt_in.incoming
               WellFormed(entries) ==
                   /\ UniqueVersions(entries)
                   /\ \A i \in 1..Len(entries) : UniqueFilenames(entries[i].files)
           IN  /\ \A i \in 1..Len(existing), j \in 1..Len(incoming) :
                      existing[i].version = incoming[j].version
                          => \E k \in 1..Len(mt_out) :
                                 /\ mt_out[k].version = existing[i].version
                                 /\ FilenamesOf(mt_out[k].files)
                                        = FilenamesOf(existing[i].files)
                                              \cup FilenamesOf(incoming[j].files)
                                 /\ Elements(mt_out[k].files)
                                        \subseteq Elements(existing[i].files)
                                                      \cup Elements(incoming[j].files)
                                 /\ UniqueFilenames(mt_out[k].files)
               /\ (WellFormed(existing) /\ WellFormed(incoming)) => WellFormed(mt_out)

\* one version with distinct filenames in the two inputs: one entry, both
\* files
C18_Witness ==
    /\ mt_op = "manifest_merge"
    /\ mt_in.existing = <<ManifestEntry("3.13.0", TRUE, TagUrl("3.13.0"), <<X64File>>)>>
    /\ mt_in.incoming = <<ManifestEntry("3.13.0", TRUE, TagUrl("3.13.0"), <<Arm64File>>)>>
    /\ Len(mt_out) = 1
    /\ mt_out[1].files = <<X64File, Arm64File>>

----------------------------------------------------------------------------
(* Properties of the manifest files, checked under SpecApply               *)

WellFormedManifest(entries) ==
    /\ UniqueVersions(entries)
    /\ \A i \in 1..Len(entries) : UniqueFilenames(entries[i].files)

\* the record has its version in the manifest and its filename in the
\* files of that version
RecordPresent(entries, entry) ==
    \E i \in 1..Len(entries) :
        /\ entries[i].version = entry.version
        /\ HasFilename(entries[i].files, entry.filename)

\* a step that calls update_version: a record that is present changes
\* nothing, a record of an unseen version adds one entry behind the others,
\* holding that file and no other
UpdateVersionStep ==
    mt_op' = "update_version"
        => LET entry == mt_in'.entry
               before == ReadManifest(manifest_dir, ManifestFile)
               after == manifest_dir'[ManifestFile]
               Unseen == entry.version \notin Elements(VersionsOf(before))
           IN  /\ RecordPresent(before, entry) => manifest_dir' = manifest_dir
               /\ Unseen
                      => /\ Len(after) = Len(before) + 1
                         /\ SubSeq(after, 1, Len(before)) = before
                         /\ after[Len(after)].version = entry.version
                         /\ Len(after[Len(after)].files) = 1
                         /\ after[Len(after)].files[1].filename = entry.filename
                         /\ after[Len(after)].files[1].download_url = entry.download_url

\* a step that calls apply_entries: records that are all present change
\* nothing, and applying the same records once more changes nothing
ApplyEntriesStep ==
    mt_op' = "apply_entries"
        => LET entries == mt_in'.entries
               Present(i) ==
                   valid_entry(entries[i][2])
                       => RecordPresent(ReadManifest(manifest_dir,
                                                     ManifestFileOf(entries[i][2])),
                                        entries[i][2])
           IN  /\ (\A i \in 1..Len(entries) : Present(i))
                      => manifest_dir' = manifest_dir
               /\ apply_entries(entries, manifest_dir').dir = manifest_dir'

\* C19: after any sequence of update_version / apply_entries calls every
\* manifest file holds at most one entry per version and at most one file
\* per filename within an entry; a record whose version and filename are
\* present leaves the manifest unchanged, so applying the same records twice
\* gives what applying them once gives; a record of an unseen version adds
\* exactly one entry holding exactly that file.
C19_ManifestFilesStayUnique ==
    /\ [](\A name \in DOMAIN manifest_dir : WellFormedManifest(manifest_dir[name]))
    /\ [][UpdateVersionStep /\ ApplyEntriesStep]_vars

\* the mirror record was given to update_version when the manifest held
\* its version and filename: the one file is still the first one
C19_Witness ==
    /\ mt_op = "update_version"
    /\ mt_in.entry = X64MirrorRecord
    /\ ManifestFile \in DOMAIN manifest_dir
    /\ Len(manifest_dir[ManifestFile]) = 1
    /\ Len(manifest_dir[ManifestFile][1].files) = 1
    /\ manifest_dir[ManifestFile][1].files[1].download_url = X64Record.download_url

----------------------------------------------------------------------------
(* Properties of the tag resolver, checked under SpecTags                  *)

\* the requested tag matches a tag exactly or as a dotted prefix
ExactOrPrefixMatch(releases, requested) ==
    \E i \in 1..Len(releases) :
        \/ StripV(releases[i].tag_name) = StripV(requested)
        \/ StartsWith(StripV(releases[i].tag_name), StripV(requested) \o ".")

\* C20: when the requested tag has no exact or prefix match, the resolver
\* returns the greatest available tag whose key is <= the requested key,
\* and only if there is none the smallest available tag whose key is >= the
\* requested key.
C20_ClosestLowerThenHigher ==
    (/\ tag_op = "find_closest_version_tag"
     /\ tag_in.releases # <<>>
     /\ ~ExactOrPrefixMatch(tag_in.releases, tag_in.requested))
        => LET key == sdk_parse_version(tag_in.requested)
               tags == Elements(tag_in.releases)
               lower == {r \in tags : VersionLeq(TagVersion(r), key)}
               higher == {r \in tags : VersionLeq(key, TagVersion(r))}
           IN  /\ tag_out # None
               /\ lower # {}
                      => \E r \in lower :
                             /\ tag_out = Some(r.tag_name)
                             /\ \A t \in lower : VersionLeq(TagVersion(t), TagVersion(r))
               /\ lower = {}
                      => \E r \in higher :
                             /\ tag_out = Some(r.tag_name)
                             /\ \A t \in higher : VersionLeq(TagVersion(r), TagVersion(t))

\* v8.0.350 against the sample releases resolves to v8.0.300
C20_Witness ==
    /\ tag_op = "find_closest_version_tag"
    /\ tag_in.releases = SampleReleases
    /\ tag_in.requested = "v8.0.350"
    /\ tag_out = Some("v8.0.300")

\* C21: tag resolution with a request fails only when there is no tag at
\* all: with at least one available tag it returns one of the available
\* tags.
C21_FailsOnlyWithoutTags ==
    (tag_op = "resolve_tag" /\ tag_in.tag_input # None)
        => /\ tag_out = Exit <=> tag_in.releases = <<>>
           /\ tag_out # Exit
                  => \E i \in 1..Len(tag_in.releases) :
                         tag_out = Returned(Some(tag_in.releases[i].tag_name))

\* the stage a four-stage version string names
NamedStage(raw) ==
    IF Contains(raw, "-alpha") THEN "alpha"
    ELSE IF Contains(raw, "-preview") THEN "preview"
    ELSE IF Contains(raw, "-rc") THEN "rc"
    ELSE IF Contains(raw, "-rtm") THEN "rtm"
    ELSE "stable"

RankOf(stage) ==
    CASE stage = "alpha" -> 0 [] stage = "preview" -> 1 [] stage = "rc" -> 2
      [] stage = "rtm" -> 3 [] stage = "stable" -> 4

\* x before y as tuples of integers: equal up to a position where x ends
\* and y goes on, or where x holds the smaller integer
BuildBefore(x, y) ==
    \E i \in 1..(Len(y)) :
        /\ \A j \in 1..(i - 1) : j <= Len(x) /\ x[j] = y[j]
        /\ i > Len(x) \/ x[i] < y[i]

\* a before b by (major, minor, patch), then stage rank, then stage
\* sequence number, then build tuple
OrderedBefore(a, b) ==
    LET coreA == <<a.major, a.minor, a.patch>>
        coreB == <<b.major, b.minor, b.patch>>
    IN  \/ BuildBefore(coreA, coreB)
        \/ /\ coreA = coreB
           /\ \/ a.stage_priority < b.stage_priority
              \/ /\ a.stage_priority = b.stage_priority
                 /\ \/ a.stage_number < b.stage_number
                    \/ /\ a.stage_number = b.stage_number
                       /\ BuildBefore(a.build, b.build)

\* C22: four-stage version keys are ordered by (major, minor, patch), then
\* by stage rank alpha(0) < preview(1) < rc(2) < rtm(3) < stable(4), then by
\* stage sequence number, then by the build tuple as integers; a stable
\* version is above every pre-release of its major.minor.patch.
C22_FourStageOrder ==
    tag_op = "compare"
        => LET a == tag_out.a
               b == tag_out.b
           IN  /\ a.stage_priority = RankOf(NamedStage(tag_in.a))
               /\ b.stage_priority = RankOf(NamedStage(tag_in.b))
               /\ tag_out.less <=> OrderedBefore(a, b)
               /\ (/\ <<a.major, a.minor, a.patch>> = <<b.major, b.minor, b.patch>>
                   /\ NamedStage(tag_in.a) # "stable"
                   /\ NamedStage(tag_in.b) = "stable") => tag_out.less

\* build 106 is below build 1000 although "106" is above "1000" as text
C22_Witness ==
    /\ tag_op = "compare"
    /\ tag_in = [a |-> "v9.0.0-preview.7.25351.106",
                 b |-> "v9.0.0-preview.7.25351.1000"]
    /\ tag_out.less

\* the records of a partial file that get applied: those of a JSON list
\* that hold the five required keys
HasAllFive(record) ==
    \A key \in {"version", "filename", "arch", "platform", "download_url"} :
        key \in DOMAIN record

AppliedOfFile(content) ==
    IF content.kind = "list" THEN SelectSeq(content.value, HasAllFive) ELSE <<>>

\* the applied records of the *.json files from position i on, in the order
\* of the paths
RECURSIVE AppliedFrom(_, _)
AppliedFrom(partials_dir, i) ==
    IF i > Len(PartialPaths) THEN <<>>
    ELSE (IF PartialPaths[i] \in DOMAIN partials_dir
             /\ EndsWith(PartialPaths[i], ".json")
          THEN AppliedOfFile(partials_dir[PartialPaths[i]]) ELSE <<>>)
         \o AppliedFrom(partials_dir, i + 1)

RECURSIVE ApplyAll(_, _, _)
ApplyAll(records, i, dir) ==
    IF i > Len(records) THEN dir
    ELSE ApplyAll(records, i + 1, ApplyEntry(dir, records[i]))

\* a run of main returns 0 and leaves the manifest directory that applying
\* the complete records in order leaves; the count is their number
MainStep ==
    mt_op' = "main"
        => LET partials == mt_in'.partials
               records == IF partials = None THEN <<>>
                          ELSE AppliedFrom(partials[1], 1)
           IN  /\ mt_out'.code = 0
               /\ manifest_dir' = ApplyAll(records, 1, manifest_dir)
               /\ DOMAIN manifest_dir' =
                      DOMAIN manifest_dir
                          \cup {ManifestFileOf(records[i]) : i \in 1..Len(records)}
               /\ mt_out'.applied # None => mt_out'.applied = Some(Len(records))
               /\ mt_out'.applied = None => records = <<>>

\* C23: apply_partial_manifests applies exactly the records that hold all
\* five required keys; a record lacking one, a file with invalid JSON and a
\* file whose document is not a list give no manifest file and no failure,
\* the other records are applied in order, the count is the number of
\* applied records and main returns 0, also without a partials directory.
C23_OnlyCompleteRecordsApplied == [][MainStep]_vars

\* the first file is not JSON, the second holds an incomplete record and a
\* complete one: one record was applied
C23_Witness ==
    /\ mt_op = "main"
    /\ mt_in.partials # None
    /\ DOMAIN mt_in.partials[1] = {PartialPaths[1], PartialPaths[2]}
    /\ mt_in.partials[1][PartialPaths[1]] = InvalidJson
    /\ mt_in.partials[1][PartialPaths[2]] = JsonList(<<BadRecord, Arm64Record>>)
    /\ mt_out = [code |-> 0, applied |-> Some(1)]
    /\ DOMAIN manifest_dir = {"3.13.0-arm64.json"}

\* the (version, filename) pairs a manifest file holds
FileRecordsOf(entries) ==
    UNION {{<<entries[i].version, entries[i].files[k].filename>> :
               k \in 1..Len(entries[i].files)} : i \in 1..Len(entries)}

\* a step of ensure_manifest_file: a missing file comes to hold the empty
\* list, an existing file and every other file stay as they are
EnsureStep ==
    mt_op' = "ensure_manifest_file"
        => LET manifest_file == mt_in'.manifest_file
           IN  IF manifest_file \in DOMAIN manifest_dir
               THEN manifest_dir' = manifest_dir
               ELSE /\ DOMAIN manifest_dir' = DOMAIN manifest_dir \cup {manifest_file}
                    /\ manifest_dir'[manifest_file] = <<>>
                    /\ \A name \in DOMAIN manifest_dir :
                           manifest_dir'[name] = manifest_dir[name]

\* a step that applies records keeps every file there was and every
\* (version, filename) pair the files held
NothingReset ==
    mt_op' \in {"apply_entries", "main"}
        => \A name \in DOMAIN manifest_dir :
               /\ name \in DOMAIN manifest_dir'
               /\ FileRecordsOf(manifest_dir[name])
                      \subseteq FileRecordsOf(manifest_dir'[name])

\* C24: ensure_manifest_file creates a missing manifest file holding the
\* empty list and leaves an existing manifest file unchanged, so applying a
\* record never resets the entries a manifest file holds.
C24_ExistingManifestKept == [][EnsureStep /\ NothingReset]_vars

\* ensure_manifest_file was called on a manifest file that holds an entry
C24_Witness ==
    /\ mt_op = "ensure_manifest_file"
    /\ mt_in.manifest_file \in DOMAIN manifest_dir
    /\ manifest_dir[mt_in.manifest_file] # <<>>

\* the (version, arch) pair and the manifest file of a writer's record
PairOf(w) == <<writers[w].entry[1].version, writers[w].entry[1].arch>>
TargetOf(w) == ManifestFileOf(writers[w].entry[1])

\* the writer's record is in the manifest file it was applied to
Kept(w) ==
    /\ TargetOf(w) \in DOMAIN manifest_dir
    /\ RecordPresent(manifest_dir[TargetOf(w)], writers[w].entry[1])

HyphenFree(text) == ~Contains(text, "-")

\* C25 as stated: records with different (version, arch) pairs target
\* different manifest files, so concurrent invocations on such records never
\* write the same file and both records are kept.
C25_DifferentPairsDifferentFiles ==
    \A w1 \in Writers, w2 \in Writers :
        (writers[w1].entry # None /\ writers[w2].entry # None /\ PairOf(w1) # PairOf(w2))
            => /\ TargetOf(w1) # TargetOf(w2)
               /\ (writers[w1].pc = "done" /\ writers[w2].pc = "done")
                      => Kept(w1) /\ Kept(w2)

\* C25 (amended): records with different (version, arch) pairs whose arch
\* holds no hyphen target different manifest files, so concurrent
\* invocations on such records never write the same file and both records
\* are kept.
C25_HyphenFreeArchPartitions ==
    \A w1 \in Writers, w2 \in Writers :
        (/\ writers[w1].entry # None /\ writers[w2].entry # None
         /\ PairOf(w1) # PairOf(w2)
         /\ HyphenFree(PairOf(w1)[2]) /\ HyphenFree(PairOf(w2)[2]))
            => /\ TargetOf(w1) # TargetOf(w2)
               /\ writers[w1].pc # "failed" /\ writers[w2].pc # "failed"
               /\ (writers[w1].pc = "done" /\ writers[w2].pc = "done")
                      => Kept(w1) /\ Kept(w2)

\* two overlapping invocations on records of different pairs are done
C25_Witness ==
    /\ writers["first"].pc = "done" /\ writers["second"].pc = "done"
    /\ writers["second"].overlapped
    /\ writers["first"].entry = Some(RcRecord)
    /\ writers["second"].entry = Some(X64Record)
    /\ Kept("first") /\ Kept("second")

\* both invocations are done on records of one manifest file with
\* different filenames
SameFileDone ==
    /\ writers["first"].pc = "done" /\ writers["second"].pc = "done"
    /\ TargetOf("first") = TargetOf("second")
    /\ writers["first"].entry[1].filename # writers["second"].entry[1].filename

\* C26: the read-modify-write of a manifest file takes no lock: with one
\* writer at a time both file records are in the manifest file at the end
\* (two overlapping writers can both read the old content, and then the
\* file holds only one of the two records).
C26_OneWriterAtATimeKeepsBoth ==
    (~writers["first"].overlapped /\ ~writers["second"].overlapped)
        => /\ \A w \in Writers : writers[w].pc # "failed"
           /\ raw_files = <<>> \/ \E w \in Writers : writers[w].pc = "create"
           /\ SameFileDone => Kept("first") /\ Kept("second")

\* lost update: two overlapping writers read the same old content and the
\* file holds the record of one of them only
C26_Witness ==
    /\ SameFileDone
    /\ writers["first"].entry = Some(X64Record)
    /\ writers["second"].entry = Some(X64DebugRecord)
    /\ writers["second"].overlapped
    /\ writers["first"].data = writers["second"].data
    /\ Kept("second") /\ ~Kept("first")

\* the string does not start with MAJOR.MINOR.PATCH
Malformed(version) == VersionMatch(version) = None

\* C27: parse_version gives a malformed string the key (0,0,0,0,0), and a
\* malformed version sorts lowest: its key is never greater than the key of
\* a parseable version string.
C27_MalformedSortsLowest ==
    /\ (ver_op = "parse_version" /\ Malformed(ver_in.version))
           => ver_out = <<0, 0, 0, 0, 0>>
    /\ (ver_op = "version_compare" /\ Malformed(ver_in.a) /\ ~Malformed(ver_in.b))
           => ver_out <= 0

\* the third version string of a transitivity check
ThirdVersions ==
    StableVersions \cup ZeroVersions \cup OddVersions
        \cup {"3.11.0-rc.1", "3.11.0rc1", "3.11.0-beta.2", "3.11.0-alpha.10",
              "3.9.12-rc.2"}

\* C28: version_compare is a total order on version keys: its result is
\* -1, 0 or 1, version_compare(a, b) = -version_compare(b, a), it is 0
\* exactly when the keys are equal, and it is transitive.
C28_CompareIsTotalOrder ==
    ver_op = "version_compare"
        => LET a == ver_in.a
               b == ver_in.b
           IN  /\ ver_out \in {-1, 0, 1}
               /\ ver_out = -version_compare(b, a)
               /\ ver_out = 0 <=> parse_version(a) = parse_version(b)
               /\ \A c \in ThirdVersions :
                      (ver_out >= 0 /\ version_compare(b, c) >= 0)
                          => version_compare(a, c) >= 0

\* two different strings of one key compare as equal
C28_Witness ==
    /\ ver_op = "version_compare"
    /\ ver_in = [a |-> "3.11.0-rc.1", b |-> "3.11.0rc1"]
    /\ ver_out = 0

\* C29: classification and ordering agree on what is stable: a version
\* string that starts with MAJOR.MINOR.PATCH is classified stable exactly
\* when its key carries the stable stage rank (fourth component 0).
C29_StableClassAgreesWithKey ==
    (ver_op = "classify" /\ ~Malformed(ver_in.version))
        => (ver_out.is_stable <=> parse_version(ver_in.version)[4] = 0)

\* the hyphen-separated fields of a filename without its known prefix and suffix
FieldsOf(filename) == Split(WithoutSuffix(WithoutPrefix(filename)), "-")

\* C30: every entry build_manifest_entries emits carries the release tag as
\* version and the asset name as filename; the version in the filename is
\* not used, so all entries of a call share one version; arch, platform and
\* platform_version are fields 4, 2 and 3 of the stripped filename.
C30_VersionIsTheTag ==
    gpm_op = "build_manifest_entries"
        => \A k \in 1..Len(gpm_out.entries) :
               LET entry == gpm_out.entries[k]
                   fields == FieldsOf(entry.filename)
               IN  /\ entry.version = gpm_in.tag
                   /\ \E i \in 1..Len(gpm_in.assets) :
                          AssetName(gpm_in.assets[i]) = entry.filename
                   /\ Len(fields) >= 4
                   /\ entry.arch = fields[4]
                   /\ entry.platform = fields[2]
                   /\ entry.platform_version = fields[3]

\* two entries of one call: the filename of the first encodes 3.13.3, the
\* tag and both versions are 3.12.0
C30_Witness ==
    /\ gpm_op = "build_manifest_entries"
    /\ gpm_in.tag = "3.12.0"
    /\ Len(gpm_out.entries) = 2
    /\ gpm_out.entries[1].filename = GoodName
    /\ gpm_out.entries[2].filename = LongName
    /\ gpm_out.entries[1].version = "3.12.0"
    /\ gpm_out.entries[2].version = "3.12.0"
    /\ FieldsOf(GoodName)[1] = "3.13.3"

====
